---- MODULE Spec2Model ----
(***************************************************************************)
(* Verification model of chuscraper's traffic-control plane:               *)
(*   core/limiter.py      RateLimiter, AdaptiveRateLimiter,                *)
(*                        ConcurrencyLimiter                               *)
(*   core/local_proxy.py  LocalAuthProxy                                   *)
(*   leads/crawler.py     DomainCrawler                                    *)
(*                                                                         *)
(* The program runs on one asyncio event loop: a coroutine runs without    *)
(* interruption from one suspension point to the next, so one action of    *)
(* the model is the code between two suspension points.                    *)
(*                                                                         *)
(* Time is counted in ticks of the limiter's epsilon (the 0.1 s added to   *)
(* every wait, limiter.py:51).                                             *)
(***************************************************************************)
EXTENDS Integers, Sequences, FiniteSets, TLC

\* ----------------------------------------------------------------- bounds
\* number of acquire() calls issued against one RateLimiter
NCalls == 3
\* largest max_requests a plain RateLimiter is constructed with
MaxRequests == 2
\* time_window, in ticks
TimeWindow == 2
\* the clock stops advancing here
MaxTime == 7
\* largest initial_rate of an AdaptiveRateLimiter whose rate adaptation is
\* followed on its own
MaxInitialRate == 10
\* largest initial_rate of an AdaptiveRateLimiter that also serves acquire()
MaxAdaptiveRate == 2
\* record_success() is not called once success_count has reached this
MaxSuccessCount == 11
\* acquire() calls issued against one AdaptiveRateLimiter
NAdaptiveCalls == 2
\* the clock of an AdaptiveRateLimiter run stops advancing here
MaxAdaptiveTime == 3
\* largest max_concurrent a ConcurrencyLimiter is constructed with
MaxConcurrent == 2
\* scoped operations launched on one ConcurrencyLimiter
NTasks == 4
\* longest byte stream a client sends to the LocalAuthProxy
MaxStreamLen == 5
\* longest byte stream a client sends through a session that is followed into
\* its relay phase
MaxRelayLen == 3
\* longest byte stream the upstream proxy sends back
MaxUpstreamLen == 2
\* client connections made to one listening LocalAuthProxy
NSessions == 2
\* a session is followed for this many relayed chunks
MaxRelayed == 2
\* stop() is called at most this often
MaxStopCalls == 2
\* largest max_pages a DomainCrawler is constructed with
MaxPages == 4
\* largest max_concurrent a DomainCrawler is constructed with
MaxCrawlConcurrent == 2
MaxRuns == 2
MaxUrls == 3
LastCall == 1
MaxLate == 1

\* ------------------------------------------------------ program constants
\* limiter.py:51, the margin added to every wait, one tick
EPSILON == 1
\* limiter.py:190, successes in a row before the rate is raised
SUCCESS_THRESHOLD == 10
\* limiter.py:200, errors in a row before the rate is halved
ERROR_THRESHOLD == 3
\* local_proxy.py:110, the most bytes one read() of a relay returns
READ_SIZE == 4096

Calls == 1..NCalls

Max(a, b) == IF a >= b THEN a ELSE b
Min(a, b) == IF a <= b THEN a ELSE b

VARIABLES
    \* RateLimiter
    max_requests,   \* self.max_requests
    requests,       \* self.requests, the deque of admission instants
    locked,         \* self._lock is held
    clock,          \* time.time()
    pc,             \* per acquire() call: "idle", "sleeping", "returned", "raised"
    wake,           \* per call: the instant its asyncio.sleep() ends
    depth,          \* per call: nested acquire() activations below the outermost
    log,            \* history: every admission recorded, [t, c], never pruned
    \* AdaptiveRateLimiter
    initial_rate, min_rate, max_rate, error_count, success_count,
    errRun,         \* history: record_error() calls in a row, counted in threes
    sucRun,         \* history: record_success() calls in a row, counted in tens
    lastOp,         \* history: the limiter method called last
    \* ConcurrencyLimiter
    max_concurrent, \* the permits the semaphore was created with
    sem_value,      \* self.semaphore._value, the free permits
    sem_waiters,    \* self.semaphore._waiters, FIFO of [task, done]
    active_count,   \* self.active_count
    tpc,            \* per scoped operation: "start", "waiting", "body",
                    \* "done", "raised"
    \* LocalAuthProxy, one TunnelSession
    username,       \* self.upstream.username, <<>> when absent
    password,       \* self.upstream.password, <<>> when absent
    auth_header,    \* self.auth_header, <<>> for None
    client_in,      \* the bytes the client has sent and the proxy not yet read
    header_data,    \* the buffered header block
    upstream_out,   \* the bytes written to the upstream connection
    spc,            \* the session: "accepted", "reading", "buffered",
                    \* "relaying", "closed"
    client_sent,    \* history: every byte the client sends
    upstream_sent,  \* history: every byte the upstream sends
    upstream_in,    \* the bytes the upstream has sent and the proxy not yet read
    client_out,     \* the bytes written to the client connection
    c2u,            \* pipe(client_reader, upstream_writer): "idle", "running",
                    \* "done"
    u2c,            \* pipe(upstream_reader, client_writer), the same
    client_sock,    \* the client connection: "open", "closed"
    upstream_sock,  \* the upstream connection: "none", "open", "closed"
    \* LocalAuthProxy, the listener and its sessions
    proxy,          \* LocalAuthProxy(url): "failed" (it raised), "constructed"
    upstream_host,  \* self.upstream_host, "" for None
    upstream_port,  \* self.upstream_port
    server,         \* self.server: "none", "listening", "closed"
    sess,           \* per client connection: "none", "connecting", "header",
                    \* "relaying", "closed"
    attempts,       \* per client connection: open_connection() calls made
    relayed,        \* per client connection: chunks relayed
    ended,          \* history, per client connection: "no", "eos", "error"
    stop_calls,     \* history: stop() calls made
    relayed_at_stop,\* history: relayed, as it was at the first stop() that
                    \* closed the server
    \* DomainCrawler, one crawl() call
    max_pages,      \* self.max_pages
    crawl_concurrent,   \* self.max_concurrent of the crawler
    same_domain_only,   \* self.same_domain_only
    site,           \* the site: per page, the hrefs of its anchors in order
    visited,        \* self.visited
    to_visit,       \* self.to_visit
    results,        \* results, as [url, success]
    batch,          \* the tasks of the batch in hand, in order: [url, st,
                    \* success, new_urls], st "running", "returned", "raised"
    cpc,            \* crawl(): "loop" (at the while test), "gather", "done"
    dispatched,     \* history: per URL, the fetch tasks created for it
    \* DomainCrawler, crawl() called again, and get_progress()
    run,            \* history: crawl() calls made on the crawler
    first_visited,  \* history: self.visited as the crawl() before left it
    fate,           \* per page, what fetching it comes to: "ok", "nolinks",
                    \* "fail", "raise"
    progress,       \* what the last get_progress() returned, <<>> before
    \* the navigations of the fetch tasks
    nav,            \* history: the browser.get(url) calls made to discover
                    \* links, [t, c]
    fpc,            \* per task, after scrape_page(): "scraping",
                    \* "discovered", "failed"
    \* LeadScraper.scrape_multiple
    urls,           \* the urls argument
    scraped,        \* per task, how scrape_page() ended: "none", "success",
                    \* "failure", "raised"
    processed_results,  \* processed_results, as [url, success, error]
    mpc,            \* scrape_multiple(): "gather", "done"
    \* DomainCrawler, the order of a crawl
    enqueued,       \* history: every URL put on to_visit, in that order
    sent,           \* history: every URL a task was created for, in that
                    \* order, with the number of its batch, [url, b]
    found_at        \* history, per URL: the depth it was first found at, the
                    \* seed at 0, a link one below the page it was on; -1
                    \* before

rlVars == <<max_requests, requests, locked, clock, pc, wake, depth, log>>
arlVars == <<initial_rate, min_rate, max_rate, error_count, success_count,
             errRun, sucRun, lastOp>>
clVars == <<max_concurrent, sem_value, sem_waiters, active_count, tpc>>
pxVars == <<username, password, auth_header, client_in, header_data,
            upstream_out, spc>>
relayVars == <<client_sent, upstream_sent, upstream_in, client_out, c2u, u2c,
               client_sock, upstream_sock>>
srvVars == <<proxy, upstream_host, upstream_port, server, sess, attempts,
             relayed, ended, stop_calls, relayed_at_stop>>
crVars == <<max_pages, crawl_concurrent, same_domain_only, site, visited,
            to_visit, results, batch, cpc, dispatched>>
reVars == <<run, first_visited, fate, progress>>
ftVars == <<nav, fpc>>
smVars == <<urls, scraped, processed_results, mpc>>
bfVars == <<enqueued, sent, found_at>>
vars == <<rlVars, arlVars, clVars, pxVars, relayVars, srvVars, crVars,
          reVars, ftVars, smVars, bfVars>>

\* what the limiter's methods leave alone
notRateLimiter == <<clVars, pxVars, relayVars, srvVars, crVars, reVars,
                    ftVars, smVars, bfVars>>
\* what the ConcurrencyLimiter leaves alone
notConcurrency == <<rlVars, arlVars, pxVars, relayVars, srvVars, crVars,
                    reVars, ftVars, smVars, bfVars>>
\* what the LocalAuthProxy leaves alone
notProxy == <<rlVars, arlVars, clVars, srvVars, crVars, reVars, ftVars,
              smVars, bfVars>>
\* what the listener and the coarse sessions leave alone
notServer == <<rlVars, arlVars, clVars, pxVars, relayVars, crVars, reVars,
               ftVars, smVars, bfVars>>
\* what the DomainCrawler leaves alone, the history of its order apart
notBreadth == <<rlVars, arlVars, clVars, pxVars, relayVars, srvVars, reVars,
                ftVars, smVars>>
\* what the DomainCrawler leaves alone
notCrawler == <<notBreadth, bfVars>>

\* ============================================================ RateLimiter

\* limiter.py:45-46: drop the instants older than now - time_window
RECURSIVE Prune(_, _)
Prune(q, now) ==
    IF q # <<>> /\ q[1] < now - TimeWindow THEN Prune(Tail(q), now) ELSE q

\* faulty variant of IsFull: admits one request too many
IsFullOffByOne(n, k) == n > k
\* limiter.py:48
IsFull(n, k) == n >= k

\* limiter.py:51
WaitTime(now, oldest) == TimeWindow - (now - oldest) + EPSILON

\* faulty variant of LockRelease: the lock stays as it was
LockReleaseForgotten(l) == [locked |-> l, ok |-> l]
\* asyncio.Lock.release() as limiter.py:41 and :54 use it: frees a held lock,
\* raises RuntimeError on a lock that is not held
LockRelease(l) == [locked |-> FALSE, ok |-> l]

\* faulty variant of UnawaitedLockAcquire: the lock is taken and held
HeldLockAcquire(l) == TRUE
\* limiter.py:56: the coroutine self._lock.acquire() is created and never
\* awaited, so the lock is left as it was
UnawaitedLockAcquire(l) == l

\* limiter.py:41, 58: leaving n nested `async with self._lock` blocks, the
\* innermost first; each calls release(), also while an exception propagates
RECURSIVE Unwind(_, _)
Unwind(n, l) ==
    IF n = 0 THEN [locked |-> l, ok |-> TRUE]
    ELSE LET r == LockRelease(l)
             rest == Unwind(n - 1, r.locked)
         IN [locked |-> rest.locked, ok |-> r.ok /\ rest.ok]

\* limiter.py:41-61: one activation of acquire() at nesting depth d, from
\* taking the lock to the sleep or to the return
Attempt(c, d, l) ==
    /\ ~l                                \* async with self._lock
    /\ LET now == clock
           pruned == Prune(requests, now)
       IN IF IsFull(Len(pruned), max_requests)
          THEN /\ requests' = pruned
               /\ wake' = [wake EXCEPT ![c] = now + WaitTime(now, pruned[1])]
               /\ locked' = LockRelease(TRUE).locked
               /\ pc' = [pc EXCEPT ![c] = "sleeping"]
               /\ depth' = [depth EXCEPT ![c] = d]
               /\ log' = log
          ELSE LET u == Unwind(d + 1, TRUE)
               IN /\ requests' = Append(pruned, now)
                  /\ log' = Append(log, [t |-> now, c |-> c])
                  /\ locked' = u.locked
                  /\ pc' = [pc EXCEPT ![c] = IF u.ok THEN "returned" ELSE "raised"]
                  /\ depth' = [depth EXCEPT ![c] = d]
                  /\ wake' = wake

\* limiter.py:39: a caller calls acquire()
acquire(c) ==
    /\ pc[c] = "idle"
    /\ Attempt(c, 0, locked)
    /\ lastOp' = "acquire"
    /\ UNCHANGED <<max_requests, clock, initial_rate, min_rate, max_rate,
                   error_count, success_count, errRun, sucRun>>
    /\ UNCHANGED notRateLimiter

\* limiter.py:55-58: the sleep ends and acquire() calls itself
acquire_retry(c) ==
    /\ pc[c] = "sleeping"
    /\ clock >= wake[c]
    /\ Attempt(c, depth[c] + 1, UnawaitedLockAcquire(locked))
    /\ lastOp' = "acquire"
    /\ UNCHANGED <<max_requests, clock, initial_rate, min_rate, max_rate,
                   error_count, success_count, errRun, sucRun>>
    /\ UNCHANGED notRateLimiter

\* time.time() moves on by one tick
Advance ==
    /\ clock' = clock + 1
    /\ UNCHANGED <<max_requests, requests, locked, pc, wake, depth, log, arlVars>>
    /\ UNCHANGED notRateLimiter

Tick ==
    /\ clock < MaxTime
    /\ Advance

\* faulty variant of Cleared: the history is kept
ClearedKeepsHistory(q) == q
\* limiter.py:63-65
Cleared(q) == <<>>

reset ==
    /\ requests' = Cleared(requests)
    /\ lastOp' = "reset"
    /\ UNCHANGED <<max_requests, locked, clock, pc, wake, depth, log,
                   initial_rate, min_rate, max_rate, error_count, success_count,
                   errRun, sucRun>>
    /\ UNCHANGED notRateLimiter

\* no ConcurrencyLimiter in use
NoConcurrency ==
    /\ max_concurrent = 0 /\ sem_value = 0 /\ sem_waiters = <<>>
    /\ active_count = 0 /\ tpc = <<>>

\* no second crawl() and no get_progress()
NoRecrawl ==
    /\ run = 0 /\ first_visited = {} /\ fate = <<>> /\ progress = <<>>

\* no navigation followed
NoFetch == nav = <<>> /\ fpc = <<>>

\* no scrape_multiple() in use
NoMulti ==
    /\ urls = <<>> /\ scraped = <<>> /\ processed_results = <<>>
    /\ mpc = "done"

\* no order of a crawl followed
NoBreadth ==
    /\ enqueued = <<>> /\ sent = <<>> /\ found_at = <<>>

\* no DomainCrawler in use
NoCrawler ==
    /\ max_pages = 0 /\ crawl_concurrent = 0 /\ same_domain_only = FALSE
    /\ site = <<>> /\ visited = {} /\ to_visit = <<>> /\ results = <<>>
    /\ batch = <<>> /\ cpc = "done" /\ dispatched = <<>>

\* no listening LocalAuthProxy in use
NoServer ==
    /\ proxy = "failed" /\ upstream_host = "" /\ upstream_port = 0
    /\ server = "none" /\ sess = <<>> /\ attempts = <<>> /\ relayed = <<>>
    /\ ended = <<>> /\ stop_calls = 0 /\ relayed_at_stop = <<>>

\* no LocalAuthProxy in use
NoProxy ==
    /\ username = <<>> /\ password = <<>> /\ auth_header = <<>>
    /\ client_in = <<>> /\ header_data = <<>> /\ upstream_out = <<>>
    /\ spc = "closed"
    /\ client_sent = <<>> /\ upstream_sent = <<>> /\ upstream_in = <<>>
    /\ client_out = <<>> /\ c2u = "idle" /\ u2c = "idle"
    /\ client_sock = "closed" /\ upstream_sock = "none"

\* limiter.py:26-37
InitRateLimiter ==
    /\ requests = <<>>
    /\ locked = FALSE
    /\ clock = 0
    /\ pc = [c \in Calls |-> "idle"]
    /\ wake = [c \in Calls |-> 0]
    /\ depth = [c \in Calls |-> 0]
    /\ log = <<>>
    /\ NoConcurrency /\ NoProxy /\ NoServer /\ NoCrawler
    /\ NoRecrawl /\ NoFetch /\ NoMulti /\ NoBreadth

Init ==
    /\ max_requests \in 1..MaxRequests
    /\ InitRateLimiter
    /\ initial_rate = 0 /\ min_rate = 0 /\ max_rate = 0
    /\ error_count = 0 /\ success_count = 0
    /\ errRun = 0 /\ sucRun = 0 /\ lastOp = "none"

Next ==
    \/ \E c \in Calls : acquire(c)
    \/ \E c \in Calls : acquire_retry(c)
    \/ Tick

Spec == Init /\ [][Next]_vars

\* the limiter with its callers, the clock and reset()
NextReset ==
    \/ Next
    \/ reset

SpecReset == Init /\ [][NextReset]_vars

\* the limiter with callers that all call by the instant LastCall, each
\* resumed no later than MaxLate after its sleep ended, and time enough for
\* every one of them to have waited for those before
LiveHorizon == LastCall + NCalls * (TimeWindow + EPSILON + MaxLate)

acquire_early(c) ==
    /\ clock <= LastCall
    /\ acquire(c)

TickLive ==
    /\ clock < LiveHorizon
    /\ \A c \in Calls : pc[c] = "sleeping" => clock < wake[c] + MaxLate
    /\ Advance

NextLive ==
    \/ \E c \in Calls : acquire_early(c)
    \/ \E c \in Calls : acquire_retry(c)
    \/ TickLive

\* time moves on, and the event loop resumes a caller whose sleep has ended
SpecLive ==
    /\ Init
    /\ [][NextLive]_vars
    /\ WF_vars(TickLive)
    /\ \A c \in Calls : WF_vars(acquire_retry(c))

\* ==================================================== AdaptiveRateLimiter

\* faulty variant of MinRate: the quarter of initial_rate is ignored
MinRateFloorOnly(r) == 1
\* limiter.py:179
MinRate(r) == Max(1, r \div 4)

\* limiter.py:180
MaxRate(r) == r * 2

\* faulty variant of ShouldSpeedUp: one success too late
ShouldSpeedUpLate(sc, mr, maxr) == sc > SUCCESS_THRESHOLD /\ mr < maxr
\* limiter.py:190
ShouldSpeedUp(sc, mr, maxr) == sc >= SUCCESS_THRESHOLD /\ mr < maxr

\* limiter.py:191
SpeedUp(mr, maxr) == Min(mr + 1, maxr)

\* faulty variant of ShouldSlowDown: one error too late
ShouldSlowDownLate(ec) == ec > ERROR_THRESHOLD
\* limiter.py:200
ShouldSlowDown(ec) == ec >= ERROR_THRESHOLD

\* faulty variant of SlowDown: min_rate is ignored
SlowDownNoFloor(mr, minr) == mr \div 2
\* limiter.py:201
SlowDown(mr, minr) == Max(mr \div 2, minr)

\* limiter.py:184-192
record_success ==
    /\ success_count < MaxSuccessCount
    /\ LET sc == success_count + 1
       IN IF ShouldSpeedUp(sc, max_requests, max_rate)
          THEN /\ max_requests' = SpeedUp(max_requests, max_rate)
               /\ success_count' = 0
          ELSE /\ max_requests' = max_requests
               /\ success_count' = sc
    /\ error_count' = 0
    /\ sucRun' = (sucRun + 1) % 10
    /\ errRun' = 0
    /\ lastOp' = "record_success"
    /\ UNCHANGED <<requests, locked, clock, pc, wake, depth, log,
                   initial_rate, min_rate, max_rate>>
    /\ UNCHANGED notRateLimiter

\* limiter.py:194-202
record_error ==
    /\ LET ec == error_count + 1
       IN IF ShouldSlowDown(ec)
          THEN /\ max_requests' = SlowDown(max_requests, min_rate)
               /\ error_count' = 0
          ELSE /\ max_requests' = max_requests
               /\ error_count' = ec
    /\ success_count' = 0
    /\ errRun' = (errRun + 1) % 3
    /\ sucRun' = 0
    /\ lastOp' = "record_error"
    /\ UNCHANGED <<requests, locked, clock, pc, wake, depth, log,
                   initial_rate, min_rate, max_rate>>
    /\ UNCHANGED notRateLimiter

\* limiter.py:204-209
reset_to_initial ==
    /\ max_requests' = initial_rate
    /\ error_count' = 0
    /\ success_count' = 0
    /\ requests' = Cleared(requests)
    /\ errRun' = 0
    /\ sucRun' = 0
    /\ lastOp' = "reset_to_initial"
    /\ UNCHANGED <<locked, clock, pc, wake, depth, log,
                   initial_rate, min_rate, max_rate>>
    /\ UNCHANGED notRateLimiter

AdaptiveCalls == 1..NAdaptiveCalls

TickAdaptive ==
    /\ clock < MaxAdaptiveTime
    /\ Advance

\* limiter.py:176-182
Construct(r) ==
    /\ initial_rate = r
    /\ max_requests = r
    /\ InitRateLimiter
    /\ min_rate = MinRate(r)
    /\ max_rate = MaxRate(r)
    /\ error_count = 0 /\ success_count = 0
    /\ errRun = 0 /\ sucRun = 0 /\ lastOp = "none"

\* the rate adaptation alone: record_success, record_error, reset_to_initial
InitAIMD == \E r \in 1..MaxInitialRate : Construct(r)

NextAIMD ==
    \/ record_success
    \/ record_error
    \/ reset_to_initial

SpecAIMD == InitAIMD /\ [][NextAIMD]_vars

\* the adaptive limiter with its callers and the clock
InitAdaptive == \E r \in 1..MaxAdaptiveRate : Construct(r)

NextAdaptive ==
    \/ \E c \in AdaptiveCalls : acquire(c)
    \/ \E c \in AdaptiveCalls : acquire_retry(c)
    \/ TickAdaptive
    \/ record_success
    \/ record_error
    \/ reset_to_initial
    \/ reset

SpecAdaptive == InitAdaptive /\ [][NextAdaptive]_vars

\* the adaptive limiter with its callers, the clock and the rate adaptation,
\* never reset
NextAdaptiveWindow ==
    \/ \E c \in AdaptiveCalls : acquire(c)
    \/ \E c \in AdaptiveCalls : acquire_retry(c)
    \/ TickAdaptive
    \/ record_success
    \/ record_error

SpecAdaptiveWindow == InitAdaptive /\ [][NextAdaptiveWindow]_vars

\* ===================================================== ConcurrencyLimiter
\* asyncio.Semaphore is modelled as CPython 3.11 implements it: release()
\* hands the permit to the first waiter that is not yet woken, and a caller
\* queues whenever there is no free permit or somebody is queued already.
\* The sections under self._lock (limiter.py:98, 104) hold no suspension
\* point, so that lock is free whenever a task reaches it.

Tasks == 1..NTasks

\* Semaphore.locked(), as limiter.py:97 relies on it
SemLocked(v, w) == v = 0 \/ w # <<>>

\* faulty variant of WakeUpNext: no waiter is woken
WakeUpNone(v, w, i) == [value |-> v, waiters |-> w]

\* Semaphore._wake_up_next(), as limiter.py:103 relies on it: the first waiter
\* not yet woken gets the permit
RECURSIVE WakeUpNext(_, _, _)
WakeUpNext(v, w, i) ==
    IF i > Len(w) THEN [value |-> v, waiters |-> w]
    ELSE IF ~w[i].done
         THEN [value |-> v - 1, waiters |-> [w EXCEPT ![i].done = TRUE]]
         ELSE WakeUpNext(v, w, i + 1)

\* faulty variant of Released: the permit is not given back
ReleasedKeepsPermit(v, w) == [value |-> v, waiters |-> w]
\* limiter.py:103, self.semaphore.release()
Released(v, w) == WakeUpNext(v + 1, w, 1)

\* faulty variant of Entered: the entry is counted before the permit is had
\* and again after
EnteredTwice(n) == n + 2
\* limiter.py:99
Entered(n) == n + 1

\* faulty variant of Left: the decrement is missing
LeftNotCounted(n) == n
\* limiter.py:105
Left(n) == n - 1

RECURSIVE Without(_, _)
Without(w, t) ==
    IF w = <<>> THEN <<>>
    ELSE IF w[1].task = t THEN Tail(w)
         ELSE <<w[1]>> \o Without(Tail(w), t)

Woken(t) == \E i \in 1..Len(sem_waiters) :
                sem_waiters[i].task = t /\ sem_waiters[i].done

\* limiter.py:96-100, __aenter__ up to its first suspension point: a free
\* permit is taken and counted at once, otherwise the task queues
aenter(t) ==
    /\ tpc[t] = "start"
    /\ IF ~SemLocked(sem_value, sem_waiters)
       THEN /\ sem_value' = sem_value - 1
            /\ active_count' = Entered(active_count)
            /\ tpc' = [tpc EXCEPT ![t] = "body"]
            /\ sem_waiters' = sem_waiters
       ELSE /\ sem_waiters' = Append(sem_waiters, [task |-> t, done |-> FALSE])
            /\ tpc' = [tpc EXCEPT ![t] = "waiting"]
            /\ UNCHANGED <<sem_value, active_count>>
    /\ UNCHANGED max_concurrent
    /\ UNCHANGED notConcurrency

\* limiter.py:97-100, __aenter__ resumed with the permit it was handed
aenter_resume(t) ==
    /\ tpc[t] = "waiting"
    /\ Woken(t)
    /\ LET w == Without(sem_waiters, t)
           r == IF sem_value > 0 THEN WakeUpNext(sem_value, w, 1)
                ELSE [value |-> sem_value, waiters |-> w]
       IN /\ sem_value' = r.value
          /\ sem_waiters' = r.waiters
    /\ active_count' = Entered(active_count)
    /\ tpc' = [tpc EXCEPT ![t] = "body"]
    /\ UNCHANGED max_concurrent
    /\ UNCHANGED notConcurrency

\* limiter.py:102-105, __aexit__: it runs on every way out of the body
aexit(t, how) ==
    /\ tpc[t] = "body"
    /\ LET r == Released(sem_value, sem_waiters)
       IN /\ sem_value' = r.value
          /\ sem_waiters' = r.waiters
    /\ active_count' = Left(active_count)
    /\ tpc' = [tpc EXCEPT ![t] = how]
    /\ UNCHANGED max_concurrent
    /\ UNCHANGED notConcurrency

\* the scoped body ends normally
body_returns(t) == aexit(t, "done")

\* the scoped body raises
body_raises(t) == aexit(t, "raised")

\* no RateLimiter in use
NoRateLimiter ==
    /\ max_requests = 0 /\ requests = <<>> /\ locked = FALSE /\ clock = 0
    /\ pc = <<>> /\ wake = <<>> /\ depth = <<>> /\ log = <<>>
    /\ initial_rate = 0 /\ min_rate = 0 /\ max_rate = 0
    /\ error_count = 0 /\ success_count = 0
    /\ errRun = 0 /\ sucRun = 0 /\ lastOp = "none"

\* limiter.py:85-94
InitConcurrency ==
    /\ max_concurrent \in 1..MaxConcurrent
    /\ sem_value = max_concurrent
    /\ sem_waiters = <<>>
    /\ active_count = 0
    /\ tpc = [t \in Tasks |-> "start"]
    /\ NoRateLimiter /\ NoProxy /\ NoServer /\ NoCrawler
    /\ NoRecrawl /\ NoFetch /\ NoMulti /\ NoBreadth

NextConcurrency ==
    \/ \E t \in Tasks : aenter(t)
    \/ \E t \in Tasks : aenter_resume(t)
    \/ \E t \in Tasks : body_returns(t)
    \/ \E t \in Tasks : body_raises(t)

SpecConcurrency == InitConcurrency /\ [][NextConcurrency]_vars

\* limiter.py:96-105 under the event loop: a task that was handed a permit
\* is resumed, and an operation that entered its scope leaves it, normally or
\* by raising
SpecConcurrencyLive ==
    /\ InitConcurrency
    /\ [][NextConcurrency]_vars
    /\ \A t \in Tasks : WF_vars(aenter_resume(t))
    /\ \A t \in Tasks : WF_vars(body_returns(t) \/ body_raises(t))

\* ========================================================= LocalAuthProxy
\* Byte strings are sequences of byte values. A client stream is made of the
\* bytes "a" (97), CR (13), LF (10) and 0xFF (255, not valid UTF-8), and is
\* followed by end-of-stream.

StreamBytes == {97, 13, 10, 255}
Streams == UNION {[1..n -> StreamBytes] : n \in 0..MaxStreamLen}

CRLF == <<13, 10>>

\* "Proxy-Authorization: ", local_proxy.py:82
PROXY_AUTHORIZATION == <<80, 114, 111, 120, 121, 45, 65, 117, 116, 104, 111,
                         114, 105, 122, 97, 116, 105, 111, 110, 58, 32>>

\* "Basic ", local_proxy.py:31
BASIC == <<66, 97, 115, 105, 99, 32>>

\* the user names and passwords of the upstream URL: absent, "u", "us" and
\* absent, "p"
Users == {<<>>, <<117>>, <<117, 115>>}
Passwords == {<<>>, <<112>>}

\* the base64 alphabet, A-Z a-z 0-9 + /
B64Char(i) ==
    IF i < 26 THEN 65 + i
    ELSE IF i < 52 THEN 97 + (i - 26)
    ELSE IF i < 62 THEN 48 + (i - 52)
    ELSE IF i = 62 THEN 43 ELSE 47

\* base64.b64encode, local_proxy.py:30
RECURSIVE B64Encode(_)
B64Encode(bs) ==
    IF bs = <<>> THEN <<>>
    ELSE IF Len(bs) = 1
    THEN <<B64Char(bs[1] \div 4), B64Char((bs[1] % 4) * 16), 61, 61>>
    ELSE IF Len(bs) = 2
    THEN <<B64Char(bs[1] \div 4),
           B64Char((bs[1] % 4) * 16 + bs[2] \div 16),
           B64Char((bs[2] % 16) * 4), 61>>
    ELSE <<B64Char(bs[1] \div 4),
           B64Char((bs[1] % 4) * 16 + bs[2] \div 16),
           B64Char((bs[2] % 16) * 4 + bs[3] \div 64),
           B64Char(bs[3] % 64)>> \o B64Encode(SubSeq(bs, 4, Len(bs)))

\* local_proxy.py:26-31: None (here <<>>) unless both parts are non-empty
AuthHeader(u, p) ==
    IF u # <<>> /\ p # <<>> THEN BASIC \o B64Encode(u \o <<58>> \o p)
    ELSE <<>>

\* StreamReader.readline(), local_proxy.py:67: the bytes up to and including
\* the first LF, or all that is left before end-of-stream
RECURSIVE FirstLF(_, _)
FirstLF(bs, i) ==
    IF i > Len(bs) THEN 0
    ELSE IF bs[i] = 10 THEN i ELSE FirstLF(bs, i + 1)

ReadLine(bs) ==
    LET i == FirstLF(bs, 1)
    IN IF i = 0 THEN [line |-> bs, rest |-> <<>>]
       ELSE [line |-> SubSeq(bs, 1, i), rest |-> SubSeq(bs, i + 1, Len(bs))]

\* local_proxy.py:69
EndsHeader(line) == line = CRLF \/ line = <<10>> \/ line = <<>>

\* bytes.decode(), local_proxy.py:76: fails on a byte that is not UTF-8
Decodable(bs) == \A i \in 1..Len(bs) : bs[i] # 255

\* str.splitlines(), local_proxy.py:77: CR, LF and CR LF each end a line, and
\* no empty line follows the last line ending
RECURSIVE FirstBreak(_, _)
FirstBreak(bs, i) ==
    IF i > Len(bs) THEN 0
    ELSE IF bs[i] \in {13, 10} THEN i ELSE FirstBreak(bs, i + 1)

RECURSIVE SplitLines(_)
SplitLines(bs) ==
    IF bs = <<>> THEN <<>>
    ELSE LET i == FirstBreak(bs, 1)
         IN IF i = 0 THEN <<bs>>
            ELSE LET n == IF bs[i] = 13 /\ i < Len(bs) /\ bs[i + 1] = 10
                          THEN 2 ELSE 1
                 IN <<SubSeq(bs, 1, i - 1)>>
                    \o SplitLines(SubSeq(bs, i + n, Len(bs)))

\* "\r\n".join(lines), local_proxy.py:86
RECURSIVE Join(_)
Join(lines) ==
    IF lines = <<>> THEN <<>>
    ELSE IF Len(lines) = 1 THEN lines[1]
    ELSE lines[1] \o CRLF \o Join(Tail(lines))

\* local_proxy.py:79-80: one empty line at the end is removed
PopBlank(lines) ==
    IF lines # <<>> /\ lines[Len(lines)] = <<>>
    THEN SubSeq(lines, 1, Len(lines) - 1) ELSE lines

\* local_proxy.py:73-88
NewHeaderData(hd, auth) ==
    IF auth # <<>>
    THEN Join(PopBlank(SplitLines(hd))
              \o <<PROXY_AUTHORIZATION \o auth, <<>>, <<>>>>)
    ELSE hd

\* the configuration and the byte streams of the session
creds == <<username, password, auth_header>>
relayData == <<client_sent, upstream_sent, upstream_in, client_out>>

\* local_proxy.py:59-61: the upstream connection is opened
open_upstream ==
    /\ spc = "accepted"
    /\ spc' = "reading"
    /\ upstream_sock' = "open"
    /\ UNCHANGED <<creds, client_in, header_data, upstream_out>>
    /\ UNCHANGED <<relayData, c2u, u2c, client_sock>>
    /\ UNCHANGED notProxy

\* local_proxy.py:59-61, 100-104: the upstream is unreachable; the error is
\* swallowed and the client connection closed
open_upstream_fails ==
    /\ spc = "accepted"
    /\ spc' = "closed"
    /\ client_sock' = "closed"
    /\ UNCHANGED <<creds, client_in, header_data, upstream_out>>
    /\ UNCHANGED <<relayData, c2u, u2c, upstream_sock>>
    /\ UNCHANGED notProxy

\* local_proxy.py:100-104: an exception raised before the relays run is
\* swallowed and only client_writer is closed. Nothing closes the upstream
\* connection: it stays open, unless the interpreter closes it when it
\* finalises the writer that went out of scope.
Unclosed == {"open", "closed"}

\* a header loop that passes each line on as it is read
read_and_forward_line ==
    /\ spc = "reading"
    /\ LET r == ReadLine(client_in)
       IN /\ header_data' = header_data \o r.line
          /\ upstream_out' = upstream_out \o r.line
          /\ client_in' = r.rest
          /\ spc' = IF EndsHeader(r.line) THEN "buffered" ELSE "reading"
    /\ UNCHANGED creds
    /\ UNCHANGED relayVars
    /\ UNCHANGED notProxy

\* local_proxy.py:66-70: one readline() of the header loop
read_header_line ==
    /\ spc = "reading"
    /\ LET r == ReadLine(client_in)
       IN /\ header_data' = header_data \o r.line
          /\ client_in' = r.rest
          /\ spc' = IF EndsHeader(r.line) THEN "buffered" ELSE "reading"
    /\ UNCHANGED <<creds, upstream_out>>
    /\ UNCHANGED relayVars
    /\ UNCHANGED notProxy

\* local_proxy.py:67, 100-104: readline() raises (the client connection is
\* reset, or a line is longer than the reader's limit)
read_header_fails ==
    /\ spc = "reading"
    /\ spc' = "closed"
    /\ client_sock' = "closed"
    /\ upstream_sock' \in Unclosed
    /\ UNCHANGED <<creds, client_in, header_data, upstream_out>>
    /\ UNCHANGED <<relayData, c2u, u2c>>
    /\ UNCHANGED notProxy

\* local_proxy.py:72-98: the header block is rewritten and written to the
\* upstream, and the two relays are started; a block that does not decode
\* raises, which ends the session
forward_header ==
    /\ spc = "buffered"
    /\ IF auth_header # <<>> /\ ~Decodable(header_data)
       THEN /\ spc' = "closed"
            /\ upstream_out' = upstream_out
            /\ client_sock' = "closed"
            /\ upstream_sock' \in Unclosed
            /\ UNCHANGED <<c2u, u2c>>
       ELSE /\ upstream_out' = upstream_out \o NewHeaderData(header_data, auth_header)
            /\ spc' = "relaying"
            /\ c2u' = "running"
            /\ u2c' = "running"
            /\ UNCHANGED <<client_sock, upstream_sock>>
    /\ UNCHANGED <<creds, client_in, header_data>>
    /\ UNCHANGED relayData
    /\ UNCHANGED notProxy

\* local_proxy.py:91-92, 100-104: the header block is written and drain()
\* raises
forward_header_fails ==
    /\ spc = "buffered"
    /\ auth_header = <<>> \/ Decodable(header_data)
    /\ upstream_out' = upstream_out \o NewHeaderData(header_data, auth_header)
    /\ spc' = "closed"
    /\ client_sock' = "closed"
    /\ upstream_sock' \in Unclosed
    /\ UNCHANGED <<creds, client_in, header_data>>
    /\ UNCHANGED <<relayData, c2u, u2c>>
    /\ UNCHANGED notProxy

\* local_proxy.py:110: read(4096) returns between one byte and READ_SIZE bytes
\* of those that have arrived
ReadSizes(buf) == 1..Min(Len(buf), READ_SIZE)
Rest(buf, n) == SubSeq(buf, n + 1, Len(buf))

\* local_proxy.py:110-113: what a relay writes for the data it read
PipedTwice(data) == data \o data
Piped(data) == data

\* local_proxy.py:109-114, pipe(client_reader, upstream_writer): one turn of
\* the loop
pipe_client_data ==
    /\ c2u = "running"
    /\ \E n \in ReadSizes(client_in) :
        /\ upstream_out' = upstream_out \o Piped(SubSeq(client_in, 1, n))
        /\ client_in' = Rest(client_in, n)
    /\ UNCHANGED <<creds, header_data, spc>>
    /\ UNCHANGED relayVars
    /\ UNCHANGED notProxy

\* local_proxy.py:109-117, pipe(client_reader, upstream_writer): the client's
\* end-of-stream is reached and the relay closes its writer
pipe_client_eof ==
    /\ c2u = "running"
    /\ client_in = <<>>
    /\ c2u' = "done"
    /\ upstream_sock' = "closed"
    /\ UNCHANGED pxVars
    /\ UNCHANGED <<relayData, u2c, client_sock>>
    /\ UNCHANGED notProxy

\* local_proxy.py:109-117, pipe(client_reader, upstream_writer): read() or
\* drain() raises; the relay swallows the error and closes its writer
pipe_client_fails ==
    /\ c2u = "running"
    /\ c2u' = "done"
    /\ upstream_sock' = "closed"
    /\ UNCHANGED pxVars
    /\ UNCHANGED <<relayData, u2c, client_sock>>
    /\ UNCHANGED notProxy

\* a relay that hands the client the proxy's own credential header
pipe_upstream_leaks ==
    /\ u2c = "running"
    /\ client_out' = client_out \o auth_header
    /\ u2c' = "done"
    /\ UNCHANGED pxVars
    /\ UNCHANGED <<client_sent, upstream_sent, upstream_in, c2u, client_sock,
                   upstream_sock>>
    /\ UNCHANGED notProxy

\* local_proxy.py:109-114, pipe(upstream_reader, client_writer): one turn of
\* the loop
pipe_upstream_data ==
    /\ u2c = "running"
    /\ \E n \in ReadSizes(upstream_in) :
        /\ client_out' = client_out \o Piped(SubSeq(upstream_in, 1, n))
        /\ upstream_in' = Rest(upstream_in, n)
    /\ UNCHANGED pxVars
    /\ UNCHANGED <<client_sent, upstream_sent, c2u, u2c, client_sock,
                   upstream_sock>>
    /\ UNCHANGED notProxy

\* local_proxy.py:109-117, pipe(upstream_reader, client_writer): the
\* upstream's end-of-stream is reached and the relay closes its writer
pipe_upstream_eof ==
    /\ u2c = "running"
    /\ upstream_in = <<>>
    /\ u2c' = "done"
    /\ client_sock' = "closed"
    /\ UNCHANGED pxVars
    /\ UNCHANGED <<relayData, c2u, upstream_sock>>
    /\ UNCHANGED notProxy

\* local_proxy.py:109-117, pipe(upstream_reader, client_writer): read() or
\* drain() raises
pipe_upstream_fails ==
    /\ u2c = "running"
    /\ u2c' = "done"
    /\ client_sock' = "closed"
    /\ UNCHANGED pxVars
    /\ UNCHANGED <<relayData, c2u, upstream_sock>>
    /\ UNCHANGED notProxy

\* local_proxy.py:95-104: gather() returns once both relays have ended, and
\* client_writer is closed once more
handle_client_returns ==
    /\ spc = "relaying"
    /\ c2u = "done"
    /\ u2c = "done"
    /\ spc' = "closed"
    /\ client_sock' = "closed"
    /\ UNCHANGED <<creds, client_in, header_data, upstream_out>>
    /\ UNCHANGED <<relayData, c2u, u2c, upstream_sock>>
    /\ UNCHANGED notProxy

\* a client that has connected, and the upstream's answer, not yet read
Accepted ==
    /\ header_data = <<>>
    /\ upstream_out = <<>>
    /\ spc = "accepted"
    /\ client_sent = client_in
    /\ upstream_in = upstream_sent
    /\ client_out = <<>>
    /\ c2u = "idle"
    /\ u2c = "idle"
    /\ client_sock = "open"
    /\ upstream_sock = "none"

\* local_proxy.py:22-34 and a client that connects and sends its stream
InitProxy ==
    /\ username \in Users
    /\ password \in Passwords
    /\ auth_header = AuthHeader(username, password)
    /\ client_in \in Streams
    /\ upstream_sent = <<>>
    /\ Accepted
    /\ NoRateLimiter /\ NoConcurrency /\ NoServer /\ NoCrawler
    /\ NoRecrawl /\ NoFetch /\ NoMulti /\ NoBreadth

NextProxy ==
    \/ open_upstream
    \/ open_upstream_fails
    \/ read_header_line
    \/ forward_header

SpecProxy == InitProxy /\ [][NextProxy]_vars

\* the streams of a session that is followed through its relay phase
RelayStreams == UNION {[1..n -> StreamBytes] : n \in 0..MaxRelayLen}
UpstreamBytes == {98, 99}
UpstreamStreams == UNION {[1..n -> UpstreamBytes] : n \in 0..MaxUpstreamLen}

InitRelay ==
    /\ username \in Users
    /\ password \in Passwords
    /\ auth_header = AuthHeader(username, password)
    /\ client_in \in RelayStreams
    /\ upstream_sent \in UpstreamStreams
    /\ Accepted
    /\ NoRateLimiter /\ NoConcurrency /\ NoServer /\ NoCrawler
    /\ NoRecrawl /\ NoFetch /\ NoMulti /\ NoBreadth

NextRelay ==
    \/ open_upstream
    \/ open_upstream_fails
    \/ read_header_line
    \/ forward_header
    \/ read_header_fails
    \/ forward_header_fails
    \/ pipe_client_data
    \/ pipe_client_eof
    \/ pipe_client_fails
    \/ pipe_upstream_data
    \/ pipe_upstream_eof
    \/ pipe_upstream_fails
    \/ handle_client_returns

SpecRelay == InitRelay /\ [][NextRelay]_vars

\* ============================================ LocalAuthProxy, the listener
\* The listener and the sessions it creates, one per client connection. Here a
\* session is followed by its position in handle_client only; its bytes are
\* followed above.

Sessions == 1..NSessions

\* An upstream proxy URL, given by what urlparse() finds in it: the host and
\* the port of its network location, each "" when it has none.
\*   "http://h:8080"            [host |-> "h", port |-> "8080"]
\*   "http://h"                 [host |-> "h", port |-> ""]
\*   "http://h:abc"             [host |-> "h", port |-> "abc"]
\*   "http://:8080"             [host |-> "",  port |-> "8080"]
\*   "not a url", "h:8080", ""  [host |-> "",  port |-> ""]
ProxyUrls == [host : {"", "h"}, port : {"", "8080", "abc"}]

\* urlparse(url).hostname, local_proxy.py:24: None (here "") without a host
Hostname(url) == url.host

\* urlparse(url).port, local_proxy.py:25: raises ValueError unless the port is
\* absent or a number
PortRaises(url) == url.port \notin {"", "8080"}

\* local_proxy.py:25
Port(url) == IF url.port = "" THEN 80 ELSE 8080

\* local_proxy.py:22-34: the constructor; nothing but the port can make it
\* raise
LocalAuthProxy(url) ==
    /\ IF PortRaises(url)
       THEN /\ proxy = "failed"
            /\ upstream_host = ""
            /\ upstream_port = 0
       ELSE /\ proxy = "constructed"
            /\ upstream_host = Hostname(url)
            /\ upstream_port = Port(url)
    /\ server = "none"
    /\ sess = [s \in Sessions |-> "none"]
    /\ attempts = [s \in Sessions |-> 0]
    /\ relayed = [s \in Sessions |-> 0]
    /\ ended = [s \in Sessions |-> "no"]
    /\ stop_calls = 0
    /\ relayed_at_stop = <<>>

\* local_proxy.py:36-48: start() is called once on an instance, for the one
\* browser launch the instance serves
start ==
    /\ proxy = "constructed"
    /\ server = "none"
    /\ server' = "listening"
    /\ UNCHANGED <<proxy, upstream_host, upstream_port, sess, attempts, relayed,
                   ended, stop_calls, relayed_at_stop>>
    /\ UNCHANGED notServer

\* local_proxy.py:50-53: what stop() makes of self.server
Stopped(sv) == IF sv = "none" THEN "none" ELSE "closed"

\* the sessions after stop(): it touches none of them
StopCancelsSessions(ss) == [s \in DOMAIN ss |-> IF ss[s] = "none" THEN "none" ELSE "closed"]
AfterStop(ss) == ss

\* local_proxy.py:50-53
stop ==
    /\ proxy = "constructed"
    /\ stop_calls < MaxStopCalls
    /\ stop_calls' = stop_calls + 1
    /\ server' = Stopped(server)
    /\ sess' = AfterStop(sess)
    /\ relayed_at_stop' = IF server = "listening" THEN relayed
                          ELSE relayed_at_stop
    /\ UNCHANGED <<proxy, upstream_host, upstream_port, attempts, relayed,
                   ended>>
    /\ UNCHANGED notServer

\* local_proxy.py:55-61: the listener accepts a client connection and
\* handle_client runs up to its call of open_connection()
handle_client(s) ==
    /\ server = "listening"
    /\ sess[s] = "none"
    /\ sess' = [sess EXCEPT ![s] = "connecting"]
    /\ attempts' = [attempts EXCEPT ![s] = @ + 1]
    /\ UNCHANGED <<proxy, upstream_host, upstream_port, server, relayed, ended,
                   stop_calls, relayed_at_stop>>
    /\ UNCHANGED notServer

\* local_proxy.py:59-64
connected(s) ==
    /\ sess[s] = "connecting"
    /\ sess' = [sess EXCEPT ![s] = "header"]
    /\ UNCHANGED <<proxy, upstream_host, upstream_port, server, attempts,
                   relayed, ended, stop_calls, relayed_at_stop>>
    /\ UNCHANGED notServer

\* local_proxy.py:66-98: the header block is buffered, rewritten and
\* forwarded, and the relays start
header_forwarded(s) ==
    /\ sess[s] = "header"
    /\ sess' = [sess EXCEPT ![s] = "relaying"]
    /\ UNCHANGED <<proxy, upstream_host, upstream_port, server, attempts,
                   relayed, ended, stop_calls, relayed_at_stop>>
    /\ UNCHANGED notServer

\* local_proxy.py:106-114: a relay of the session moves a chunk
relay(s) ==
    /\ sess[s] = "relaying"
    /\ relayed[s] < MaxRelayed
    /\ relayed' = [relayed EXCEPT ![s] = @ + 1]
    /\ UNCHANGED <<proxy, upstream_host, upstream_port, server, sess, attempts,
                   ended, stop_calls, relayed_at_stop>>
    /\ UNCHANGED notServer

\* local_proxy.py:95-104, 106-117: both sides of the session have reached
\* end-of-stream
session_eos(s) ==
    /\ sess[s] = "relaying"
    /\ sess' = [sess EXCEPT ![s] = "closed"]
    /\ ended' = [ended EXCEPT ![s] = "eos"]
    /\ UNCHANGED <<proxy, upstream_host, upstream_port, server, attempts,
                   relayed, stop_calls, relayed_at_stop>>
    /\ UNCHANGED notServer

\* local_proxy.py:100-104, 115-117: what an I/O error in a session makes of
\* the listener: the error is swallowed in the session
ErrorClosesServer(sv) == "closed"
AfterError(sv) == sv

\* local_proxy.py:57-104, 106-117: an I/O error in the session (the upstream
\* is unreachable, the header block is malformed, a connection is reset); the
\* session ends, and nothing is tried again
session_fails(s) ==
    /\ sess[s] \in {"connecting", "header", "relaying"}
    /\ sess' = [sess EXCEPT ![s] = "closed"]
    /\ ended' = [ended EXCEPT ![s] = "error"]
    /\ server' = AfterError(server)
    /\ UNCHANGED <<proxy, upstream_host, upstream_port, attempts, relayed,
                   stop_calls, relayed_at_stop>>
    /\ UNCHANGED notServer

InitListener ==
    /\ \E url \in ProxyUrls : LocalAuthProxy(url)
    /\ NoRateLimiter /\ NoConcurrency /\ NoProxy /\ NoCrawler
    /\ NoRecrawl /\ NoFetch /\ NoMulti /\ NoBreadth

NextListener ==
    \/ start
    \/ stop
    \/ \E s \in Sessions : handle_client(s)
    \/ \E s \in Sessions : connected(s)
    \/ \E s \in Sessions : header_forwarded(s)
    \/ \E s \in Sessions : relay(s)
    \/ \E s \in Sessions : session_eos(s)
    \/ \E s \in Sessions : session_fails(s)

SpecListener == InitListener /\ [][NextListener]_vars

\* ============================================================ DomainCrawler
\* A URL is its scheme, network location and path; an href has a fragment as
\* well, and is relative when its scheme and network location are empty. An
\* href that is not valid makes urljoin() raise (as "http://[" does).

Url(s, n, p) == [scheme |-> s, netloc |-> n, path |-> p]
Href(s, n, p, f) ==
    [scheme |-> s, netloc |-> n, path |-> p, frag |-> f, valid |-> TRUE]

\* the seed and the pages of its site, and a page of another host
PageA == Url("https", "a.test", "/")
PageB == Url("https", "a.test", "/b")
PageC == Url("https", "a.test", "/c")
PageD == Url("https", "a.test", "/d")
PageO == Url("https", "other.test", "/")
Pages == {PageA, PageB, PageC, PageD, PageO}
StartUrl == PageA

\* href="/", "/b", "/c", "/d", "/b#top", "https://other.test/",
\* "mailto:x@a.test", "ftp://a.test/", "http://["
ToA == Href("", "", "/", "")
ToB == Href("", "", "/b", "")
ToC == Href("", "", "/c", "")
ToD == Href("", "", "/d", "")
ToBTop == Href("", "", "/b", "top")
ToO == Href("https", "other.test", "/", "")
Mail == Href("mailto", "", "x@a.test", "")
Ftp == Href("ftp", "a.test", "/", "")
BadHref == [scheme |-> "http", netloc |-> "[", path |-> "", frag |-> "",
            valid |-> FALSE]

\* the anchors a page may have, and the sites made of such pages
LinkLists ==
    { <<>>,
      <<ToB, ToC, ToO>>,
      <<ToA, ToD>>,
      <<ToBTop, Mail, ToD, Ftp, ToD, BadHref, ToC>> }
Sites == [Pages -> LinkLists]

\* every URL a link of such a site can lead a crawl to
Urls == {Url("https", n, q) : n \in {"a.test", "other.test"},
                               q \in {"/", "/b", "/c", "/d"}}

\* the anchors of the page loaded from a URL; a URL that is no page of the
\* site has none
Anchors(st, url) == IF url \in DOMAIN st THEN st[url] ELSE <<>>

Range(f) == {f[i] : i \in DOMAIN f}

\* urljoin(current_url, href), crawler.py:149
UrlJoin(current_url, href) ==
    IF href.scheme # ""
    THEN [scheme |-> href.scheme, netloc |-> href.netloc,
          path |-> href.path, frag |-> href.frag]
    ELSE IF href.netloc # ""
    THEN [scheme |-> current_url.scheme, netloc |-> href.netloc,
          path |-> href.path, frag |-> href.frag]
    ELSE [scheme |-> current_url.scheme, netloc |-> current_url.netloc,
          path |-> href.path, frag |-> href.frag]

\* absolute_url.split('#')[0], crawler.py:152
StripFragment(u) == Url(u.scheme, u.netloc, u.path)

\* crawler.py:168-172
GetDomain(url) == url.netloc

\* crawler.py:155-157: the link is kept by the domain filter
AnyDomain(u, base_domain, sdo) == TRUE
SameDomain(u, base_domain, sdo) == sdo => GetDomain(u) = base_domain

\* crawler.py:160
IsHttp(u) == u.scheme \in {"http", "https"}

\* crawler.py:138-166: the links of a page; an exception ends the extraction
\* with the links found so far
RECURSIVE ExtractLinks(_, _, _, _)
ExtractLinks(hrefs, current_url, base_domain, sdo) ==
    IF hrefs = <<>> THEN <<>>
    ELSE IF ~Head(hrefs).valid THEN <<>>
    ELSE LET absolute_url == StripFragment(UrlJoin(current_url, Head(hrefs)))
             more == ExtractLinks(Tail(hrefs), current_url, base_domain, sdo)
         IN IF SameDomain(absolute_url, base_domain, sdo)
                 /\ IsHttp(absolute_url)
            THEN <<absolute_url>> \o more
            ELSE more

\* crawler.py:85
VisitForgets(v, url) == v
Visit(v, url) == v \cup {url}

\* crawler.py:83-88: the URLs of the batch that get a task, a URL already in
\* visited getting none
RECURSIVE Fresh_urls(_, _)
Fresh_urls(current_batch, v) ==
    IF current_batch = <<>> THEN <<>>
    ELSE IF Head(current_batch) \in v
    THEN Fresh_urls(Tail(current_batch), v)
    ELSE <<Head(current_batch)>>
             \o Fresh_urls(Tail(current_batch), Visit(v, Head(current_batch)))

\* crawler.py:83-85: visited after the batch was gone through
RECURSIVE VisitAll(_, _)
VisitAll(current_batch, v) ==
    IF current_batch = <<>> THEN v
    ELSE IF Head(current_batch) \in v
    THEN VisitAll(Tail(current_batch), v)
    ELSE VisitAll(Tail(current_batch), Visit(v, Head(current_batch)))

Count(q, u) == Cardinality({i \in DOMAIN q : q[i] = u})

\* crawler.py:102
IsNewIgnoringQueue(new_url, v, tv) == new_url \notin v
IsNew(new_url, v, tv) == new_url \notin v /\ new_url \notin Range(tv)

\* crawler.py:103
HasRoomAlways(v, tv, mp) == TRUE
HasRoomAtBudget(v, tv, mp) == Cardinality(v) + Len(tv) <= mp
HasRoomTooEarly(v, tv, mp) == Cardinality(v) + Len(tv) + 1 < mp
HasRoom(v, tv, mp) == Cardinality(v) + Len(tv) < mp

\* faulty variant of Enqueue: a new URL goes to the head of the queue
RECURSIVE EnqueueAtFront(_, _, _, _)
EnqueueAtFront(tv, new_urls, v, mp) ==
    IF new_urls = <<>> THEN tv
    ELSE IF IsNew(Head(new_urls), v, tv) /\ HasRoom(v, tv, mp)
    THEN EnqueueAtFront(<<Head(new_urls)>> \o tv, Tail(new_urls), v, mp)
    ELSE EnqueueAtFront(tv, Tail(new_urls), v, mp)

\* crawler.py:101-104: to_visit after the links of one page were gone through
RECURSIVE Enqueue(_, _, _, _)
Enqueue(tv, new_urls, v, mp) ==
    IF new_urls = <<>> THEN tv
    ELSE IF IsNew(Head(new_urls), v, tv) /\ HasRoom(v, tv, mp)
    THEN Enqueue(Append(tv, Head(new_urls)), Tail(new_urls), v, mp)
    ELSE Enqueue(tv, Tail(new_urls), v, mp)

\* a crawl that gives up on a batch at the first task that raised
RECURSIVE EnqueueAllUntilRaise(_, _, _, _)
EnqueueAllUntilRaise(tv, batch_results, v, mp) ==
    IF batch_results = <<>> THEN tv
    ELSE IF Head(batch_results).st = "raised" THEN tv
    ELSE EnqueueAllUntilRaise(Enqueue(tv, Head(batch_results).new_urls, v, mp),
                              Tail(batch_results), v, mp)

\* crawler.py:93-104: to_visit after the results of the batch were gone
\* through in order, a task that raised being passed over
RECURSIVE EnqueueAll(_, _, _, _)
EnqueueAll(tv, batch_results, v, mp) ==
    IF batch_results = <<>> THEN tv
    ELSE IF Head(batch_results).st = "raised"
    THEN EnqueueAll(tv, Tail(batch_results), v, mp)
    ELSE EnqueueAll(Enqueue(tv, Head(batch_results).new_urls, v, mp),
                    Tail(batch_results), v, mp)

\* crawler.py:93-99: the results the batch adds
RECURSIVE Returned(_)
Returned(batch_results) ==
    IF batch_results = <<>> THEN <<>>
    ELSE IF Head(batch_results).st = "raised"
    THEN Returned(Tail(batch_results))
    ELSE <<[url |-> Head(batch_results).url,
            success |-> Head(batch_results).success]>>
             \o Returned(Tail(batch_results))

\* crawler.py:77
BatchSizeAll(mc, n) == n
BatchSize(mc, n) == Min(mc, n)

\* crawler.py:86-88: a task just created
Task(url) ==
    [url |-> url, st |-> "running", success |-> FALSE, new_urls |-> <<>>]

\* crawler.py:75-91: the while test holds; a batch is taken off to_visit, its
\* URLs are marked visited and one task each is started
take_batch ==
    /\ cpc = "loop"
    /\ to_visit # <<>>
    /\ Cardinality(visited) < max_pages
    /\ LET batch_size == BatchSize(crawl_concurrent, Len(to_visit))
           current_batch == SubSeq(to_visit, 1, batch_size)
           fresh == Fresh_urls(current_batch, visited)
       IN /\ to_visit' = SubSeq(to_visit, batch_size + 1, Len(to_visit))
          /\ visited' = VisitAll(current_batch, visited)
          /\ batch' = [i \in DOMAIN fresh |-> Task(fresh[i])]
          /\ dispatched' = [u \in DOMAIN dispatched |->
                                dispatched[u] + Count(fresh, u)]
    /\ cpc' = "gather"
    /\ UNCHANGED <<max_pages, crawl_concurrent, same_domain_only, site,
                   results>>

crawl_batch ==
    /\ take_batch
    /\ UNCHANGED notCrawler

\* crawler.py:75, 106-109: the while test fails and crawl() returns
crawl_returns ==
    /\ cpc = "loop"
    /\ ~(to_visit # <<>> /\ Cardinality(visited) < max_pages)
    /\ cpc' = "done"
    /\ UNCHANGED <<max_pages, crawl_concurrent, same_domain_only, site,
                   visited, to_visit, results, batch, dispatched>>
    /\ UNCHANGED notCrawler

\* what a task leaves alone
notTask == <<max_pages, crawl_concurrent, same_domain_only, site, visited,
             to_visit, results, cpc, dispatched>>

\* a task that puts the links it extracted on the queue itself
scrape_and_enqueue(i) ==
    /\ cpc = "gather"
    /\ i \in DOMAIN batch
    /\ batch[i].st = "running"
    /\ LET new_urls == ExtractLinks(Anchors(site, batch[i].url), batch[i].url,
                                    GetDomain(StartUrl), same_domain_only)
       IN /\ batch' = [batch EXCEPT ![i] =
                         [url |-> @.url, st |-> "returned", success |-> TRUE,
                          new_urls |-> new_urls]]
          /\ to_visit' = to_visit \o new_urls
    /\ UNCHANGED <<max_pages, crawl_concurrent, same_domain_only, site,
                   visited, results, cpc, dispatched>>
    /\ UNCHANGED notCrawler

\* crawler.py:120-136: the page is scraped and its links are extracted
scrape_and_discover(i) ==
    /\ cpc = "gather"
    /\ i \in DOMAIN batch
    /\ batch[i].st = "running"
    /\ batch' = [batch EXCEPT ![i] =
                   [url |-> @.url, st |-> "returned", success |-> TRUE,
                    new_urls |-> ExtractLinks(Anchors(site, @.url), @.url,
                                              GetDomain(StartUrl),
                                              same_domain_only)]]
    /\ UNCHANGED notTask
    /\ UNCHANGED notCrawler

\* crawler.py:120-136: the page is scraped, and loading it once more for its
\* links raises, which is swallowed
discover_fails(i) ==
    /\ cpc = "gather"
    /\ i \in DOMAIN batch
    /\ batch[i].st = "running"
    /\ batch' = [batch EXCEPT ![i] =
                   [url |-> @.url, st |-> "returned", success |-> TRUE,
                    new_urls |-> <<>>]]
    /\ UNCHANGED notTask
    /\ UNCHANGED notCrawler

\* crawler.py:120-136, scraper.py:110-117: scrape_page() returns a failure
scrape_fails(i) ==
    /\ cpc = "gather"
    /\ i \in DOMAIN batch
    /\ batch[i].st = "running"
    /\ batch' = [batch EXCEPT ![i] =
                   [url |-> @.url, st |-> "returned", success |-> FALSE,
                    new_urls |-> <<>>]]
    /\ UNCHANGED notTask
    /\ UNCHANGED notCrawler

\* crawler.py:120-121, scraper.py:64: scrape_page() raises, as it does when
\* RateLimiter.acquire() raises
scrape_raises(i) ==
    /\ cpc = "gather"
    /\ i \in DOMAIN batch
    /\ batch[i].st = "running"
    /\ batch' = [batch EXCEPT ![i] =
                   [url |-> @.url, st |-> "raised", success |-> FALSE,
                    new_urls |-> <<>>]]
    /\ UNCHANGED notTask
    /\ UNCHANGED notCrawler

\* crawler.py:91-104: gather() returns once every task of the batch has ended,
\* and the results are gone through
go_through ==
    /\ cpc = "gather"
    /\ \A i \in DOMAIN batch : batch[i].st # "running"
    /\ results' = results \o Returned(batch)
    /\ to_visit' = EnqueueAll(to_visit, batch, visited, max_pages)
    /\ cpc' = "loop"
    /\ UNCHANGED <<max_pages, crawl_concurrent, same_domain_only, site,
                   visited, batch, dispatched>>

crawl_collect ==
    /\ go_through
    /\ UNCHANGED notCrawler

\* crawler.py:22-43, 45-72: a crawler is constructed and crawl(start_url) runs
\* up to its loop
InitCrawl ==
    /\ max_pages \in 0..MaxPages
    /\ crawl_concurrent \in 1..MaxCrawlConcurrent
    /\ same_domain_only \in BOOLEAN
    /\ site \in Sites
    /\ visited = {}
    /\ to_visit = <<StartUrl>>
    /\ results = <<>>
    /\ batch = <<>>
    /\ cpc = "loop"
    /\ dispatched = [u \in Urls |-> 0]
    /\ NoRateLimiter /\ NoConcurrency /\ NoProxy /\ NoServer
    /\ NoRecrawl /\ NoFetch /\ NoMulti /\ NoBreadth

NextCrawl ==
    \/ crawl_batch
    \/ crawl_returns
    \/ \E i \in 1..MaxCrawlConcurrent : scrape_and_discover(i)
    \/ \E i \in 1..MaxCrawlConcurrent : discover_fails(i)
    \/ \E i \in 1..MaxCrawlConcurrent : scrape_fails(i)
    \/ \E i \in 1..MaxCrawlConcurrent : scrape_raises(i)
    \/ crawl_collect

SpecCrawl == InitCrawl /\ [][NextCrawl]_vars

\* the site A -> {B, C, other.test}, B -> {A}, C -> {}
ExampleSite ==
    [u \in Pages |-> IF u = PageA THEN <<ToB, ToC, ToO>>
                     ELSE IF u = PageB THEN <<ToA>>
                     ELSE <<>>]

\* crawler.py:22-43, 45-72: as InitCrawl, the example site added
InitCrawlOk ==
    /\ max_pages \in 0..MaxPages
    /\ crawl_concurrent \in 1..MaxCrawlConcurrent
    /\ same_domain_only \in BOOLEAN
    /\ site \in Sites \cup {ExampleSite}
    /\ visited = {}
    /\ to_visit = <<StartUrl>>
    /\ results = <<>>
    /\ batch = <<>>
    /\ cpc = "loop"
    /\ dispatched = [u \in Urls |-> 0]
    /\ NoRateLimiter /\ NoConcurrency /\ NoProxy /\ NoServer
    /\ NoRecrawl /\ NoFetch /\ NoMulti /\ NoBreadth

\* a crawl every task of which scrapes its page and extracts the links
NextCrawlOk ==
    \/ crawl_batch
    \/ crawl_returns
    \/ \E i \in 1..MaxCrawlConcurrent : scrape_and_discover(i)
    \/ crawl_collect

SpecCrawlOk == InitCrawlOk /\ [][NextCrawlOk]_vars

\* the sites whose pages /d and other.test have no anchors
SmallSites == {st \in Sites : st[PageD] = <<>> /\ st[PageO] = <<>>}

\* crawler.py:22-43, 45-72: a crawler constructed with any max_concurrent the
\* constructor takes, none included, and crawl(start_url) run up to its loop
InitCrawlAny ==
    /\ max_pages \in 0..MaxPages
    /\ crawl_concurrent \in 0..MaxCrawlConcurrent
    /\ same_domain_only \in BOOLEAN
    /\ site \in SmallSites
    /\ visited = {}
    /\ to_visit = <<StartUrl>>
    /\ results = <<>>
    /\ batch = <<>>
    /\ cpc = "loop"
    /\ dispatched = [u \in Urls |-> 0]
    /\ NoRateLimiter /\ NoConcurrency /\ NoProxy /\ NoServer
    /\ NoRecrawl /\ NoFetch /\ NoMulti /\ NoBreadth

\* the coordinator runs whenever it can and every task ends
SpecCrawlLive ==
    /\ InitCrawlAny
    /\ [][NextCrawl]_vars
    /\ WF_vars(crawl_batch)
    /\ WF_vars(crawl_collect)
    /\ WF_vars(crawl_returns)
    /\ \A i \in 1..MaxCrawlConcurrent :
           WF_vars(scrape_and_discover(i) \/ discover_fails(i)
                       \/ scrape_fails(i) \/ scrape_raises(i))

\* ------------------------------------------- crawl() called more than once

\* what fetching a page can come to: scraped and links extracted, scraped
\* and the second load failing, a failure returned, an exception raised
Outcomes == {"ok", "nolinks", "fail", "raise"}
Fates == {f \in [Pages -> Outcomes] : f[PageD] = "ok" /\ f[PageO] = "ok"}
Fate(u) == IF u \in DOMAIN fate THEN fate[u] ELSE "ok"

\* the sites where only the seed and /b have anchors, and the example site
RecrawlSites == {st \in SmallSites : st[PageC] = <<>>} \cup {ExampleSite}

\* faulty variant of FreshVisited: the set of the crawl before is kept
StaleVisited(v) == v
\* crawler.py:63, self.visited.clear()
FreshVisited(v) == {}

\* what a call of crawl() or of get_progress() leaves alone
notRecrawl == <<rlVars, arlVars, clVars, pxVars, relayVars, srvVars, ftVars,
                smVars, bfVars>>

\* crawler.py:45-72: crawl(start_url) is called on a crawler that runs no
\* crawl, and gets to its loop
crawl ==
    /\ cpc \in {"idle", "done"}
    /\ run < MaxRuns
    /\ run' = run + 1
    /\ first_visited' = visited
    /\ visited' = FreshVisited(visited)
    /\ to_visit' = <<StartUrl>>
    /\ results' = <<>>
    /\ batch' = <<>>
    /\ dispatched' = [u \in DOMAIN dispatched |-> 0]
    /\ cpc' = "loop"
    /\ UNCHANGED <<max_pages, crawl_concurrent, same_domain_only, site, fate,
                   progress>>
    /\ UNCHANGED notRecrawl

\* crawler.py:120-136: the task of a URL ends as fetching that URL does
fetch(i) ==
    /\ i \in DOMAIN batch
    /\ \/ Fate(batch[i].url) = "ok" /\ scrape_and_discover(i)
       \/ Fate(batch[i].url) = "nolinks" /\ discover_fails(i)
       \/ Fate(batch[i].url) = "fail" /\ scrape_fails(i)
       \/ Fate(batch[i].url) = "raise" /\ scrape_raises(i)

\* crawler.py:22-43: a crawler just constructed
InitRecrawl ==
    /\ max_pages \in 0..MaxPages
    /\ crawl_concurrent \in 1..MaxCrawlConcurrent
    /\ same_domain_only \in BOOLEAN
    /\ site \in RecrawlSites
    /\ fate \in Fates
    /\ visited = {}
    /\ to_visit = <<>>
    /\ results = <<>>
    /\ batch = <<>>
    /\ cpc = "idle"
    /\ dispatched = [u \in Urls |-> 0]
    /\ run = 0 /\ first_visited = {} /\ progress = <<>>
    /\ NoRateLimiter /\ NoConcurrency /\ NoProxy /\ NoServer
    /\ NoFetch /\ NoMulti /\ NoBreadth

NextRecrawl ==
    \/ crawl
    \/ crawl_batch
    \/ crawl_returns
    \/ \E i \in 1..MaxCrawlConcurrent : fetch(i)
    \/ crawl_collect

SpecRecrawl == InitRecrawl /\ [][NextRecrawl]_vars

\* -------------------------------------------------------- get_progress()

\* faulty variant of GetProgress: the total is the budget
GetProgressOfBudget(v, tv, mp) ==
    [visited |-> Cardinality(v), queued |-> Len(tv), total |-> mp,
     max_pages |-> mp]
\* crawler.py:176-181
GetProgress(v, tv, mp) ==
    [visited |-> Cardinality(v), queued |-> Len(tv),
     total |-> Cardinality(v) + Len(tv), max_pages |-> mp]

\* crawler.py:174-181: get_progress() is called; it has no suspension point,
\* so it runs between any two steps of a crawl
get_progress ==
    /\ progress' = GetProgress(visited, to_visit, max_pages)
    /\ UNCHANGED <<crVars, run, first_visited, fate>>
    /\ UNCHANGED notRecrawl

\* crawler.py:22-43: a crawler just constructed
InitProgress ==
    /\ max_pages \in 0..MaxPages
    /\ crawl_concurrent \in 1..MaxCrawlConcurrent
    /\ same_domain_only \in BOOLEAN
    /\ site \in RecrawlSites
    /\ fate = [u \in Pages |-> "ok"]
    /\ visited = {}
    /\ to_visit = <<>>
    /\ results = <<>>
    /\ batch = <<>>
    /\ cpc = "idle"
    /\ dispatched = [u \in Urls |-> 0]
    /\ run = 0 /\ first_visited = {} /\ progress = <<>>
    /\ NoRateLimiter /\ NoConcurrency /\ NoProxy /\ NoServer
    /\ NoFetch /\ NoMulti /\ NoBreadth

NextProgress ==
    \/ crawl
    \/ NextCrawl
    \/ get_progress

SpecProgress == InitProgress /\ [][NextProgress]_vars

\* --------------------------------------- the navigations of the fetch tasks
\* A fetch task of a crawl is _scrape_and_discover(url). Its batch holds at
\* most max_concurrent tasks, so the ConcurrencyLimiter it enters has a free
\* permit and lets it in without a wait (limiter.py:96-100); the task then
\* calls scrape_page(), which calls acquire() on the scraper's RateLimiter
\* (scraper.py:64) and, when that returns, browser.get(url) at once
\* (scraper.py:77). The task of call c is followed from there.

\* what a fetch task leaves alone once it is past acquire()
notFetch == <<rlVars, arlVars, clVars, pxVars, relayVars, srvVars, crVars,
              reVars, smVars, bfVars>>

\* crawler.py:128-130: scrape_page() has returned a success and the page is
\* loaded once more, for its links
discover(c) ==
    /\ pc[c] = "returned"
    /\ fpc[c] = "scraping"
    /\ nav' = Append(nav, [t |-> clock, c |-> c])
    /\ fpc' = [fpc EXCEPT ![c] = "discovered"]
    /\ UNCHANGED notFetch

\* scraper.py:109-116, crawler.py:128: scrape_page() has returned a failure,
\* and the page is not loaded again
scrape_page_fails(c) ==
    /\ pc[c] = "returned"
    /\ fpc[c] = "scraping"
    /\ fpc' = [fpc EXCEPT ![c] = "failed"]
    /\ nav' = nav
    /\ UNCHANGED notFetch

\* crawler.py:41, scraper.py:38-41: the scraper of a crawler and its
\* RateLimiter, no task started
InitFetch ==
    /\ max_requests \in 1..MaxRequests
    /\ requests = <<>>
    /\ locked = FALSE
    /\ clock = 0
    /\ pc = [c \in Calls |-> "idle"]
    /\ wake = [c \in Calls |-> 0]
    /\ depth = [c \in Calls |-> 0]
    /\ log = <<>>
    /\ initial_rate = 0 /\ min_rate = 0 /\ max_rate = 0
    /\ error_count = 0 /\ success_count = 0
    /\ errRun = 0 /\ sucRun = 0 /\ lastOp = "none"
    /\ nav = <<>>
    /\ fpc = [c \in Calls |-> "scraping"]
    /\ NoConcurrency /\ NoProxy /\ NoServer /\ NoCrawler
    /\ NoRecrawl /\ NoMulti /\ NoBreadth

NextFetch ==
    \/ \E c \in Calls : acquire(c)
    \/ \E c \in Calls : acquire_retry(c)
    \/ Tick
    \/ \E c \in Calls : discover(c)
    \/ \E c \in Calls : scrape_page_fails(c)

SpecFetch == InitFetch /\ [][NextFetch]_vars

\* ------------------------------------------- LeadScraper.scrape_multiple
\* Task t is scrape_with_limit(urls[t]): it enters the ConcurrencyLimiter,
\* awaits scrape_page() and leaves the limiter. scrape_page() returns a
\* result with success true, returns one with success false (scraper.py:
\* 109-116), or raises, as it does when RateLimiter.acquire() raises
\* (scraper.py:64).

\* the lists scrape_multiple() is called with, a URL twice among them
UrlLists == UNION {[1..n -> {PageA, PageB}] : n \in 0..MaxUrls}

ScrapeEnds == {"success", "failure", "raised"}

\* str(e) of the exception a page load failed with, and of the RuntimeError
\* acquire() raises
LoadError == "net::ERR_FAILED"
AcquireError == "Lock is not acquired."

\* scraper.py:99-116, 146-148: what task t of scrape_multiple(us) ends with,
\* a result or an exception
TaskResult(us, t, how) ==
    IF how = "raised" THEN [exc |-> AcquireError]
    ELSE [url |-> us[t], success |-> how = "success",
          error |-> IF how = "success" THEN "" ELSE LoadError]

\* scraper.py:158, isinstance(result, Exception)
IsException(result) == "exc" \in DOMAIN result

\* faulty variant of Process: a task that raised gets no result
RECURSIVE ProcessSkipsRaised(_, _, _)
ProcessSkipsRaised(res, us, i) ==
    IF i > Len(res) THEN <<>>
    ELSE IF IsException(res[i]) THEN ProcessSkipsRaised(res, us, i + 1)
    ELSE <<res[i]>> \o ProcessSkipsRaised(res, us, i + 1)

\* scraper.py:156-167: processed_results, from results[i] on
RECURSIVE Process(_, _, _)
Process(res, us, i) ==
    IF i > Len(res) THEN <<>>
    ELSE IF IsException(res[i])
    THEN <<[url |-> us[i], success |-> FALSE, error |-> res[i].exc]>>
             \o Process(res, us, i + 1)
    ELSE <<res[i]>> \o Process(res, us, i + 1)

\* what the tasks of scrape_multiple() leave alone when scrape_page() ends
notMulti == <<rlVars, arlVars, clVars, pxVars, relayVars, srvVars, crVars,
              reVars, ftVars, bfVars>>

\* scraper.py:148: scrape_page() ends in the scope of the limiter
scrape_page_ends(t, how) ==
    /\ mpc = "gather"
    /\ tpc[t] = "body"
    /\ scraped[t] = "none"
    /\ scraped' = [scraped EXCEPT ![t] = how]
    /\ UNCHANGED <<urls, processed_results, mpc>>
    /\ UNCHANGED notMulti

\* scraper.py:147-148: the task leaves the limiter, with the result of
\* scrape_page() or with its exception
scrape_with_limit_ends(t) ==
    /\ scraped[t] # "none"
    /\ IF scraped[t] = "raised" THEN body_raises(t) ELSE body_returns(t)

\* scraper.py:153-169: gather() returns once every task has ended, in the
\* order of the tasks, and the results are gone through
scrape_multiple_returns ==
    /\ mpc = "gather"
    /\ \A t \in DOMAIN tpc : tpc[t] \in {"done", "raised"}
    /\ LET gathered == [t \in DOMAIN urls |->
                            TaskResult(urls, t, scraped[t])]
       IN processed_results' = Process(gathered, urls, 1)
    /\ mpc' = "done"
    /\ UNCHANGED <<urls, scraped>>
    /\ UNCHANGED notMulti

\* scraper.py:143-153: scrape_multiple(urls, max_concurrent) has created its
\* limiter and one task for each URL
InitMulti ==
    /\ urls \in UrlLists
    /\ max_concurrent \in 1..MaxConcurrent
    /\ sem_value = max_concurrent
    /\ sem_waiters = <<>>
    /\ active_count = 0
    /\ tpc = [t \in DOMAIN urls |-> "start"]
    /\ scraped = [t \in DOMAIN urls |-> "none"]
    /\ processed_results = <<>>
    /\ mpc = "gather"
    /\ NoRateLimiter /\ NoProxy /\ NoServer /\ NoCrawler
    /\ NoRecrawl /\ NoFetch /\ NoBreadth

NextMulti ==
    \/ \E t \in DOMAIN tpc : aenter(t)
    \/ \E t \in DOMAIN tpc : aenter_resume(t)
    \/ \E t \in DOMAIN tpc : \E how \in ScrapeEnds : scrape_page_ends(t, how)
    \/ \E t \in DOMAIN tpc : scrape_with_limit_ends(t)
    \/ scrape_multiple_returns

SpecMulti == InitMulti /\ [][NextMulti]_vars

\* ------------------------------------------------- the order of a crawl
\* The crawl is followed with the order in which URLs were put on to_visit,
\* the order in which tasks were created for them, and the depth at which
\* each URL was first found among the links a task returned.

\* the number of the batch about to be taken
NextBatchNo == IF sent = <<>> THEN 1 ELSE sent[Len(sent)].b + 1

\* crawler.py:101: the depths once the links of one page, found at depth d,
\* were gone through
RECURSIVE FoundLinks(_, _, _)
FoundLinks(fa, new_urls, d) ==
    IF new_urls = <<>> THEN fa
    ELSE IF fa[Head(new_urls)] = -1
    THEN FoundLinks([fa EXCEPT ![Head(new_urls)] = d + 1], Tail(new_urls), d)
    ELSE FoundLinks(fa, Tail(new_urls), d)

\* crawler.py:93-101: the depths once the results of a batch were gone
\* through, in the order of its tasks
RECURSIVE FoundAll(_, _)
FoundAll(fa, batch_results) ==
    IF batch_results = <<>> THEN fa
    ELSE IF Head(batch_results).st = "raised"
    THEN FoundAll(fa, Tail(batch_results))
    ELSE FoundAll(FoundLinks(fa, Head(batch_results).new_urls,
                             fa[Head(batch_results).url]),
                  Tail(batch_results))

\* crawler.py:75-91: crawl_batch, the tasks created noted in order
dispatch_batch ==
    /\ take_batch
    /\ sent' = sent \o [i \in DOMAIN batch' |->
                            [url |-> batch'[i].url, b |-> NextBatchNo]]
    /\ UNCHANGED <<enqueued, found_at>>
    /\ UNCHANGED notBreadth

\* crawler.py:91-104: crawl_collect, the URLs appended and the depths of the
\* links noted
collect_batch ==
    /\ go_through
    /\ enqueued' = enqueued \o SubSeq(to_visit', Len(to_visit) + 1,
                                       Len(to_visit'))
    /\ found_at' = FoundAll(found_at, batch)
    /\ UNCHANGED sent
    /\ UNCHANGED notBreadth

\* crawler.py:22-43, 45-72: a crawler is constructed and crawl(start_url) runs
\* up to its loop
InitBreadth ==
    /\ max_pages \in 0..MaxPages
    /\ crawl_concurrent \in 1..MaxCrawlConcurrent
    /\ same_domain_only \in BOOLEAN
    /\ site \in SmallSites \cup {ExampleSite}
    /\ visited = {}
    /\ to_visit = <<StartUrl>>
    /\ results = <<>>
    /\ batch = <<>>
    /\ cpc = "loop"
    /\ dispatched = [u \in Urls |-> 0]
    /\ enqueued = <<StartUrl>>
    /\ sent = <<>>
    /\ found_at = [u \in Urls |-> IF u = StartUrl THEN 0 ELSE -1]
    /\ NoRateLimiter /\ NoConcurrency /\ NoProxy /\ NoServer
    /\ NoRecrawl /\ NoFetch /\ NoMulti

NextBreadth ==
    \/ dispatch_batch
    \/ crawl_returns
    \/ \E i \in 1..MaxCrawlConcurrent : scrape_and_discover(i)
    \/ \E i \in 1..MaxCrawlConcurrent : discover_fails(i)
    \/ \E i \in 1..MaxCrawlConcurrent : scrape_fails(i)
    \/ \E i \in 1..MaxCrawlConcurrent : scrape_raises(i)
    \/ collect_batch

SpecBreadth == InitBreadth /\ [][NextBreadth]_vars

\* ================================================================ claims

\* the admissions recorded in the closed interval [t - time_window, t]
AdmittedWithin(t) ==
    {i \in 1..Len(log) : log[i].t >= t - TimeWindow /\ log[i].t <= t}

Ended(c) == pc[c] \in {"returned", "raised"}

\* C1: a RateLimiter whose history is not reset never records more than
\* max_requests admissions in any trailing interval of length time_window;
\* the admission max_requests places after another one lies at least
\* time_window after it, and the call it belongs to does not end before that.
C1_WindowNeverExceeded ==
    /\ \A t \in 0..clock : Cardinality(AdmittedWithin(t)) <= max_requests
    /\ \A i \in 1..Len(log) :
          i + max_requests <= Len(log) =>
              /\ log[i + max_requests].t >= log[i].t + TimeWindow
              /\ Ended(log[i + max_requests].c) => clock >= log[i].t + TimeWindow

\* C1 witness: a call had to wait, was admitted after its wait and ended,
\* with more than max_requests admissions recorded in all
C1_Witness ==
    \E c \in Calls :
        /\ Ended(c) /\ depth[c] >= 1
        /\ Len(log) > max_requests
        /\ log[Len(log)].c = c

\* C2: no acquire() call ends in an error, and a call that has ended has
\* exactly one admission recorded for it.
C2_AcquireNeverFails ==
    \A c \in Calls :
        /\ pc[c] # "raised"
        /\ Ended(c) => Cardinality({i \in 1..Len(log) : log[i].c = c}) = 1

\* C5: min_rate <= max_requests <= max_rate after construction and after
\* every record_success, record_error and reset_to_initial, and min_rate and
\* max_rate never change.
C5_RateWithinBounds ==
    /\ [](min_rate <= max_requests /\ max_requests <= max_rate)
    /\ [][min_rate' = min_rate /\ max_rate' = max_rate]_vars

\* C5 witness: repeated errors have brought the rate down to min_rate
C5_Witness ==
    /\ lastOp = "record_error"
    /\ max_requests = min_rate
    /\ max_requests < initial_rate

\* C6 as stated: from initial_rate = 10, max_requests stays within [3, 20].
C6_Original ==
    initial_rate = 10 => (max_requests >= 3 /\ max_requests <= 20)

\* C6 amended: from initial_rate = 10 the bounds are min_rate = 2 (10 // 4)
\* and max_rate = 20, and max_requests stays within [2, 20].
C6_BoundsFromTen ==
    initial_rate = 10 =>
        /\ min_rate = 2 /\ max_rate = 20
        /\ max_requests >= 2 /\ max_requests <= 20

\* C6 witness: six errors in a row have brought the rate 10 -> 5 -> 2
C6_Witness ==
    initial_rate = 10 /\ lastOp = "record_error" /\ max_requests = 2

\* C7: a record_error that is the 1st or 2nd in a row leaves max_requests
\* unchanged; the 3rd in a row sets it to max(max_requests // 2, min_rate) and
\* resets both streaks; a record_success in between restarts the count. From
\* max_requests = initial_rate = 10 the 3rd gives 5.
C7_ThirdErrorHalves ==
    [][record_error =>
          /\ success_count' = 0
          /\ IF errRun = 2
             THEN /\ max_requests' = Max(max_requests \div 2, min_rate)
                  /\ error_count' = 0
                  /\ (max_requests = 10 /\ initial_rate = 10 => max_requests' = 5)
             ELSE /\ max_requests' = max_requests
                  /\ error_count' = errRun + 1]_vars

\* C7 witness: the third error in a row has halved the rate from 10 to 5
C7_Witness ==
    /\ initial_rate = 10 /\ lastOp = "record_error"
    /\ max_requests = 5 /\ error_count = 0 /\ errRun = 0

\* C8: while max_requests < max_rate a record_success that is the 1st to 9th
\* in a row leaves max_requests unchanged and the 10th in a row adds exactly 1
\* and resets the success streak; at max_rate no record_success changes it; a
\* record_error in between restarts the count. From 5 the 10th gives 6.
C8_TenthSuccessAddsOne ==
    [][record_success =>
          IF max_requests < max_rate
          THEN IF sucRun = 9
               THEN max_requests' = max_requests + 1 /\ success_count' = 0
               ELSE max_requests' = max_requests /\ success_count' = sucRun + 1
          ELSE max_requests' = max_requests]_vars

\* C8 witness: after the decrease 10 -> 5 the tenth success in a row has
\* raised the rate to 6
C8_Witness ==
    /\ initial_rate = 10 /\ lastOp = "record_success"
    /\ max_requests = 6 /\ success_count = 0 /\ sucRun = 0

\* the limiter's fields as the constructor leaves them
Fresh ==
    /\ max_requests = initial_rate
    /\ error_count = 0 /\ success_count = 0
    /\ requests = <<>>

\* C9: reset_to_initial puts the limiter back in the state of a freshly
\* constructed one and leaves initial_rate, min_rate and max_rate alone;
\* called on a limiter in that state it changes nothing.
C9_ResetRestoresFresh ==
    [][reset_to_initial =>
          /\ Fresh'
          /\ UNCHANGED <<initial_rate, min_rate, max_rate>>
          /\ Fresh => UNCHANGED <<max_requests, error_count, success_count,
                                  requests>>]_vars

\* C9 witness: reset_to_initial has acted on a limiter that had admitted a
\* call and adapted its rate
C9_Witness ==
    /\ lastOp = "reset_to_initial"
    /\ Len(log) > 0
    /\ Fresh

TaskEnded(t) == tpc[t] \in {"done", "raised"}

\* C3: with more scoped operations than permits, in every reachable state
\* 0 <= active_count <= max_concurrent.
C3_ActiveCountBounded ==
    NTasks > max_concurrent =>
        (active_count >= 0 /\ active_count <= max_concurrent)

\* C3 witness: every permit is in use and further operations are queued
C3_Witness ==
    /\ active_count = max_concurrent
    /\ \E t \in Tasks : tpc[t] = "waiting"
    /\ \E t \in Tasks : TaskEnded(t)

\* permits handed to a queued task that has not resumed yet
Granted == Cardinality({i \in 1..Len(sem_waiters) : sem_waiters[i].done})

\* C4: every exit, normal or raising, releases one permit and lowers
\* active_count by exactly one; once all operations have completed,
\* active_count is 0 and all max_concurrent permits are free.
C4_ExitAlwaysReleases ==
    /\ []((\A t \in Tasks : TaskEnded(t)) =>
            (active_count = 0 /\ sem_value = max_concurrent
             /\ sem_waiters = <<>>))
    /\ [][\A t \in Tasks :
            (body_returns(t) \/ body_raises(t)) =>
                /\ active_count' = active_count - 1
                /\ sem_value' + Granted' = sem_value + Granted + 1]_vars

\* C4 witness: all operations have completed, some by raising, some normally
C4_Witness ==
    /\ \A t \in Tasks : TaskEnded(t)
    /\ \E t \in Tasks : tpc[t] = "raised"
    /\ \E t \in Tasks : tpc[t] = "done"

RECURSIVE DropTrailingBlanks(_)
DropTrailingBlanks(lines) ==
    IF lines # <<>> /\ lines[Len(lines)] = <<>>
    THEN DropTrailingBlanks(SubSeq(lines, 1, Len(lines) - 1))
    ELSE lines

\* C10: with a user name and a password in the upstream URL, the header
\* block written to the upstream is the buffered header lines in order with
\* the trailing blank lines dropped, then the one line "Proxy-Authorization:
\* Basic <base64(username:password)>", then the blank-line terminator (for
\* u:p the value is "Basic dTpw"); without credentials the buffered block is
\* written unchanged.
C10_HeaderRewritten ==
    spc = "relaying" =>
        IF username # <<>> /\ password # <<>>
        THEN /\ upstream_out =
                  Join(DropTrailingBlanks(SplitLines(header_data))
                       \o <<PROXY_AUTHORIZATION \o BASIC
                              \o B64Encode(username \o <<58>> \o password),
                            <<>>, <<>>>>)
             /\ (username = <<117>> /\ password = <<112>>) =>
                    auth_header = BASIC \o <<100, 84, 112, 119>>
        ELSE upstream_out = header_data

IsPrefix(p, q) == Len(p) <= Len(q) /\ p = SubSeq(q, 1, Len(p))

\* the bytes the client sent after its header block
AfterHeader == SubSeq(client_sent, Len(header_data) + 1, Len(client_sent))

\* C11: once the header block has been forwarded, the bytes written to the
\* upstream after it are a prefix of the bytes the client sent after its
\* header block, and the bytes written to the client are a prefix of the
\* bytes the upstream sent: nothing is inserted (no second Proxy-Authorization
\* line either), changed, repeated or reordered.
C11_RelayTransparent ==
    c2u # "idle" =>
        /\ \E k \in 0..Len(AfterHeader) :
               upstream_out = NewHeaderData(header_data, auth_header)
                                  \o SubSeq(AfterHeader, 1, k)
        /\ IsPrefix(client_out, upstream_sent)

\* both relays have run to the end of a stream of two different bytes, in a
\* session that injected credentials
C11_Witness ==
    /\ c2u = "done" /\ u2c = "done"
    /\ auth_header # <<>>
    /\ Len(AfterHeader) >= 2 /\ AfterHeader[1] # AfterHeader[2]
    /\ upstream_out = NewHeaderData(header_data, auth_header) \o AfterHeader
    /\ Len(upstream_sent) >= 2 /\ upstream_sent[1] # upstream_sent[2]
    /\ client_out = upstream_sent

C13_BothSocketsClosed ==
    (spc = "closed" /\ upstream_sock # "none") =>
        (client_sock = "closed" /\ upstream_sock = "closed")

\* C14: an I/O error in a session ends that session alone: the listener is
\* left as it was and goes on accepting, every other session is left as it
\* was, and nothing is retried, a client connection never having more than one
\* upstream connection attempt made for it.
C14_ErrorEndsOneSession ==
    /\ [](\A s \in DOMAIN attempts : attempts[s] <= 1)
    /\ [](\A s \in DOMAIN sess : \A t \in DOMAIN sess :
              (ended[s] = "error" /\ server = "listening" /\ sess[t] = "none")
                  => ENABLED handle_client(t))
    /\ [][\A s \in DOMAIN sess :
              (ended[s] # "error" /\ ended'[s] = "error") =>
                  /\ sess'[s] = "closed"
                  /\ server' = server
                  /\ attempts' = attempts
                  /\ \A t \in DOMAIN sess \ {s} :
                         sess'[t] = sess[t] /\ relayed'[t] = relayed[t]]_vars

\* one session has ended in an error while the listener listens and another
\* session, accepted meanwhile, relays
C14_Witness ==
    \E s \in DOMAIN sess : \E t \in DOMAIN sess :
        /\ ended[s] = "error" /\ attempts[s] = 1
        /\ server = "listening"
        /\ sess[t] = "relaying" /\ relayed[t] > 0

C16_MalformedUrlRejected ==
    proxy = "constructed" => upstream_host # ""

\* C17: the crawl never has more than max_pages URLs in visited.
C17_VisitedWithinBudget ==
    Cardinality(visited) <= max_pages

\* the links every visited page would yield
LinksFound ==
    UNION {Range(ExtractLinks(Anchors(site, u), u, GetDomain(StartUrl),
                              same_domain_only)) : u \in visited}

\* the crawl has ended with the budget of two or more pages used up and a
\* page of the site, found on a visited page, left unvisited
C17_Witness ==
    /\ cpc = "done"
    /\ max_pages >= 2
    /\ Cardinality(visited) = max_pages
    /\ LinksFound \ visited # {}
    /\ \A i \in DOMAIN results : results[i].success

NoDuplicate(q) == \A i \in DOMAIN q : \A j \in DOMAIN q : q[i] = q[j] => i = j

\* C18: to_visit never holds a URL twice and never holds a visited URL.
C18_FrontierDisjoint ==
    /\ NoDuplicate(to_visit)
    /\ Range(to_visit) \cap visited = {}

\* the results of a batch have been gone through, one page of which linked
\* to a visited URL and to a URL that is queued, and linked to that one twice
C18_Witness ==
    /\ cpc = "loop"
    /\ \E i \in DOMAIN batch :
           /\ Range(batch[i].new_urls) \cap visited # {}
           /\ \E u \in Range(to_visit) : Count(batch[i].new_urls, u) >= 2

\* C19: no URL has had more than one fetch task created for it.
C19_FetchedOnce ==
    \A u \in DOMAIN dispatched : dispatched[u] <= 1

\* the two pages of one batch both linked to the seed, already visited, and
\* to a page not yet known, and that page has been fetched, once
C19_Witness ==
    /\ crawl_concurrent >= 2
    /\ site[PageA] = <<ToB, ToC, ToO>>
    /\ site[PageB] = <<ToA, ToD>>
    /\ site[PageC] = <<ToA, ToD>>
    /\ {i \in DOMAIN results : results[i].success} = DOMAIN results
    /\ Len(results) = 4
    /\ dispatched[PageA] = 1
    /\ dispatched[PageD] = 1

\* C20: with same_domain_only, every URL in to_visit or in visited has the
\* network location of the seed, so a link to another host is neither queued
\* nor fetched.
C20_SameDomainOnly ==
    same_domain_only =>
        \A u \in visited \cup Range(to_visit) :
            GetDomain(u) = GetDomain(StartUrl)

\* the seed, which links to another host, has been scraped with the filter
\* on and its links gone through, and two of its links are queued
C20_Witness ==
    /\ same_domain_only
    /\ cpc = "loop"
    /\ ToO \in Range(site[StartUrl])
    /\ Len(results) = 1 /\ results[1].success
    /\ Len(to_visit) = 2

\* C21: a task that fails or raises stops nothing: every other task of the
\* batch can still run to its end; when the batch has been gathered, the
\* result of every task that returned is appended to the results and each of
\* its links is visited or queued unless the page budget is used up; the
\* crawl goes on to its loop, and dispatches again while there is a URL
\* queued and budget left.
C21_FailureIsolated ==
    /\ [](cpc = "gather" =>
              \A i \in DOMAIN batch :
                  batch[i].st = "running" => ENABLED scrape_and_discover(i))
    /\ []((cpc = "loop" /\ to_visit # <<>> /\ Cardinality(visited) < max_pages)
              => ENABLED crawl_batch)
    /\ []((cpc = "gather" /\ \A i \in DOMAIN batch : batch[i].st # "running")
              => ENABLED crawl_collect)
    /\ [][(cpc = "gather" /\ cpc' # "gather") =>
              /\ cpc' = "loop"
              /\ SubSeq(results', 1, Len(results)) = results
              /\ \A i \in DOMAIN batch :
                     batch[i].st = "returned" =>
                         /\ \E k \in (Len(results) + 1)..Len(results') :
                                /\ results'[k].url = batch[i].url
                                /\ results'[k].success = batch[i].success
                         /\ \A u \in Range(batch[i].new_urls) :
                                \/ u \in visited
                                \/ u \in Range(to_visit')
                                \/ Cardinality(visited) + Len(to_visit')
                                       >= max_pages]_vars

\* the first task of the seed's two children raised and the second returned;
\* the crawl went on with a page only the second links to
C21_Witness ==
    /\ crawl_concurrent = 2
    /\ site[PageA] = <<ToB, ToC, ToO>>
    /\ site[PageC] = <<ToA, ToD>>
    /\ PageD \notin Range(ExtractLinks(site[PageB], PageB, GetDomain(StartUrl),
                                       same_domain_only))
    /\ PageB \in visited
    /\ Len(results) = 2
    /\ results[1].url = PageA /\ results[2].url = PageC
    /\ cpc = "gather"
    /\ \E i \in DOMAIN batch : batch[i].url = PageD /\ batch[i].st = "running"

\* C22: the list crawl() returns holds exactly one result for every URL
\* marked visited in the run, a URL whose task raised included.
C22_OneResultPerVisited ==
    cpc = "done" =>
        /\ Len(results) = Cardinality(visited)
        /\ {results[i].url : i \in DOMAIN results} = visited

\* the tasks of the batch in hand that have not ended
Running == {i \in DOMAIN batch : batch[i].st = "running"}

\* C29: a batch never holds more than max_concurrent tasks, so no more than
\* that many are in flight, and tasks are dispatched only when no task of the
\* batch before is still running.
C29_BatchBounded ==
    /\ [](Len(batch) <= crawl_concurrent /\ Cardinality(Running) <= crawl_concurrent)
    /\ [][dispatched' # dispatched => Running = {}]_vars

\* a full batch is in flight while another URL waits in the queue
C29_Witness ==
    /\ crawl_concurrent >= 2
    /\ Cardinality(Running) = crawl_concurrent
    /\ to_visit # <<>>
    /\ Cardinality(visited) < max_pages

RECURSIVE Total(_, _)
Total(f, S) ==
    IF S = {} THEN 0
    ELSE LET u == CHOOSE x \in S : TRUE IN f[u] + Total(f, S \ {u})

\* C23: crawl() returns in the end, whatever the site, max_pages and
\* max_concurrent (none included), every task ending, and has by then
\* created no more than max_pages tasks.
C23_CrawlTerminates ==
    /\ <>(cpc = "done")
    /\ [](Total(dispatched, DOMAIN dispatched) <= max_pages)

\* the URLs the links of a page lead to, kept by the filter sdo
LinksOf(u, sdo) ==
    Range(ExtractLinks(Anchors(site, u), u, GetDomain(StartUrl), sdo))

\* the URLs reachable from those of S over such links
RECURSIVE ReachFrom(_, _)
ReachFrom(S, sdo) ==
    LET T == S \cup UNION {LinksOf(u, sdo) : u \in S}
    IN IF T = S THEN S ELSE ReachFrom(T, sdo)

\* every anchor of every visited page could be resolved
ExtractionSucceeded ==
    \A u \in visited :
        \A i \in DOMAIN Anchors(site, u) : Anchors(site, u)[i].valid

\* C24 as stated: a crawl whose fetches and extractions all succeed ends with
\* min(max_pages, R) URLs visited, R the number of URLs of the seed's domain
\* reachable from the seed.
C24_VisitsMinOfBudgetAndSameDomain ==
    (cpc = "done" /\ ExtractionSucceeded) =>
        Cardinality(visited)
            = Min(max_pages, Cardinality(ReachFrom({StartUrl}, TRUE)))

\* C24: a crawl whose fetches and extractions all succeed ends with
\* min(max_pages, R) URLs visited, R the number of URLs reachable from the
\* seed over the links the crawler keeps: those of the seed's domain when
\* same_domain_only is set, all http(s) links when it is not.
C24_VisitsMinOfBudgetAndReach ==
    (cpc = "done" /\ ExtractionSucceeded) =>
        Cardinality(visited)
            = Min(max_pages,
                  Cardinality(ReachFrom({StartUrl}, same_domain_only)))

\* the crawl of the example site with max_pages = 2 has ended with two URLs
\* visited, one page of the seed's domain left out
C24_Witness ==
    /\ cpc = "done"
    /\ site = ExampleSite
    /\ same_domain_only
    /\ max_pages = 2
    /\ Cardinality(visited) = 2
    /\ Cardinality(ReachFrom({StartUrl}, TRUE)) = 3
    /\ PageO \notin visited

\* C25: crawl() called again on the same crawler, with the same seed and
\* the pages fetching as before, starts with visited empty and the seed alone
\* queued, and ends with as many URLs visited as the crawl before, in
\* whatever order the tasks of a batch end.
C25_SameVisitedSize ==
    /\ []((run >= 2 /\ cpc = "done") =>
              Cardinality(visited) = Cardinality(first_visited))
    /\ [][run' # run => visited' = {} /\ to_visit' = <<StartUrl>>]_vars

\* a second crawl has ended; both visited three pages, one of which raised
\* and one of which failed
C25_Witness ==
    /\ run = 2
    /\ cpc = "done"
    /\ Cardinality(first_visited) = 3
    /\ \E u \in visited : Fate(u) = "raise"
    /\ \E u \in visited : Fate(u) = "fail"
    /\ crawl_concurrent >= 2

\* C26: get_progress() can be called at any point, before, during and after
\* a crawl; it changes nothing of the crawler, and what it reports is the
\* size of visited, the length of to_visit, their sum and max_pages.
C26_ProgressReadsOnly ==
    /\ [](ENABLED get_progress)
    /\ [][progress' # progress =>
              /\ UNCHANGED <<crVars, run, first_visited, fate>>
              /\ progress'.visited = Cardinality(visited)
              /\ progress'.queued = Len(to_visit)
              /\ progress'.total = progress'.visited + progress'.queued
              /\ progress'.max_pages = max_pages]_vars

\* get_progress() has been called with a batch in flight, three URLs
\* visited and one queued
C26_Witness ==
    /\ cpc = "gather"
    /\ Running # {}
    /\ progress # <<>>
    /\ progress.visited = 3 /\ Cardinality(visited) = 3
    /\ progress.queued = 1 /\ Len(to_visit) = 1
    /\ progress.total = 4

\* the browser.get() calls of scrape_page(): one at the instant of each
\* admission whose acquire() returned
ScrapeNavigations == {i \in DOMAIN log : pc[log[i].c] = "returned"}

\* the navigations started in the window that ends at t
NavigationsWithin(t) ==
    Cardinality({i \in ScrapeNavigations :
                     log[i].t >= t - TimeWindow /\ log[i].t <= t})
        + Cardinality({i \in DOMAIN nav :
                           nav[i].t >= t - TimeWindow /\ nav[i].t <= t})

\* C27: every navigation of a crawl follows an admission of its own by the
\* RateLimiter, so there are no more navigations than admissions and no
\* window holds more than max_requests navigations.
C27_NavigationsGated ==
    /\ Cardinality(ScrapeNavigations) + Len(nav) <= Len(log)
    /\ \A t \in 0..clock : NavigationsWithin(t) <= max_requests

\* C28: scrape_multiple(urls) returns one result for each URL, the i-th for
\* urls[i], with a success flag and an error; a task that raised is reported
\* as a failure with the message of its exception, and what one task ends
\* with changes no other result. Until it returns, some task can make a
\* step or the results can be gathered, and a task in scrape_page() can end
\* each way whatever the others did.
C28_OneResultPerUrl ==
    /\ mpc = "done" =>
           /\ Len(processed_results) = Len(urls)
           /\ \A i \in DOMAIN urls :
                  /\ DOMAIN processed_results[i] = {"url", "success", "error"}
                  /\ processed_results[i].url = urls[i]
                  /\ processed_results[i].success = (scraped[i] = "success")
                  /\ scraped[i] = "success" => processed_results[i].error = ""
                  /\ scraped[i] = "failure" =>
                         processed_results[i].error = LoadError
                  /\ scraped[i] = "raised" =>
                         processed_results[i].error = AcquireError
    /\ mpc = "gather" =>
           /\ ENABLED NextMulti
           /\ \A t \in DOMAIN tpc :
                  (tpc[t] = "body" /\ scraped[t] = "none") =>
                      \A how \in ScrapeEnds : ENABLED scrape_page_ends(t, how)

\* scrape_multiple() has returned for more URLs than the limiter has
\* permits, one URL given twice; a task raised, one failed, one succeeded
C28_Witness ==
    /\ mpc = "done"
    /\ Len(urls) > max_concurrent
    /\ \E i, j \in DOMAIN urls : i < j /\ urls[i] = urls[j]
    /\ \E i, j, k \in DOMAIN urls :
           /\ i < j /\ j < k
           /\ scraped[i] = "raised" /\ ~processed_results[i].success
           /\ scraped[j] = "success" /\ processed_results[j].success
           /\ scraped[k] = "failure" /\ ~processed_results[k].success

\* C30: whatever the interleaving of acquire(), record_success() and
\* record_error() on an AdaptiveRateLimiter, the admissions recorded in the
\* window that ends now are no more than the current max_requests, also
\* just after record_error() has lowered it.
C30_WindowWithinCurrentLimit ==
    Cardinality(AdmittedWithin(clock)) <= max_requests

\* C30, amended: an AdaptiveRateLimiter admits a request only when, the new
\* admission counted, the window that ends now holds no more admissions
\* than the current max_requests, also after record_error() has lowered it;
\* the admissions made before a lowering stay in the window until it has
\* passed, and the window never holds more than max_rate.
C30_AdmittedWithinCurrentLimit ==
    /\ [](Cardinality(AdmittedWithin(clock)) <= max_rate)
    /\ [][Len(log') > Len(log) =>
              Cardinality(AdmittedWithin(clock))' <= max_requests']_vars

\* record_error() has halved the limit of two to one with an admission in
\* the window; the next caller slept until that window had passed and was
\* admitted then
C30_Witness ==
    /\ initial_rate = 2
    /\ max_requests = 1
    /\ Len(log) = 2
    /\ log[2].t - log[1].t > TimeWindow
    /\ depth[log[2].c] >= 1
    /\ lastOp = "acquire"

\* the admission of call c is recorded
Admitted(c) == \E i \in DOMAIN log : log[i].c = c

\* C31: every acquire() call has its admission recorded in the end: a
\* caller that has to wait does not wait forever behind the others, and the
\* lock is free whenever it comes back for it.
C31_EventuallyAdmitted ==
    \A c \in Calls : (pc[c] # "idle") ~> Admitted(c)

\* a call found the window full twice, behind two others, and was admitted
\* at its third evaluation
C31_Witness ==
    \E c \in Calls :
        /\ depth[c] >= 2
        /\ Admitted(c)
        /\ log[Len(log)].c = c
        /\ Len(log) = 3

\* C32: the lock is free whenever a caller sleeps, so a caller that has not
\* called yet can always call, and is admitted in that step whenever the
\* pruned window has room, as it has after reset(); a caller that slept is
\* admitted only in a step that starts with the lock free, finds room in the
\* window as pruned at that instant, and appends that instant to it.
C32_LockFreeWhileSleeping ==
    /\ []((\E c \in Calls : pc[c] = "sleeping") => ~locked)
    /\ [](\A c \in Calls : pc[c] = "idle" => ENABLED acquire(c))
    /\ [][\A c \in Calls :
              (pc[c] = "idle" /\ pc'[c] # "idle"
                   /\ Len(Prune(requests, clock)) < max_requests)
                  => Admitted(c)']_vars
    /\ [][\A c \in Calls :
              (pc[c] = "sleeping" /\ Admitted(c)') =>
                  /\ ~locked
                  /\ clock >= wake[c]
                  /\ Len(Prune(requests, clock)) < max_requests
                  /\ requests' = Append(Prune(requests, clock), clock)]_vars

\* with one caller asleep for the window, reset() was called and a caller
\* that came after it has been admitted, over the limit of the window
C32_Witness ==
    /\ \E c \in Calls : pc[c] = "sleeping" /\ clock < wake[c]
    /\ lastOp = "acquire"
    /\ Cardinality(AdmittedWithin(clock)) > max_requests
    /\ pc[log[Len(log)].c] = "returned"

\* the block ends with an empty line
BlankLineEnd(hd) ==
    \/ hd = <<10>> \/ hd = CRLF
    \/ Len(hd) >= 2 /\ hd[Len(hd)] = 10 /\ hd[Len(hd) - 1] = 10
    \/ Len(hd) >= 3 /\ SubSeq(hd, Len(hd) - 2, Len(hd)) = <<10, 13, 10>>

\* the header block is buffered whole: it is what the client sent up to its
\* first empty line, or all the client sent before its end-of-stream
HeaderComplete ==
    /\ header_data \o client_in = client_sent
    /\ BlankLineEnd(header_data) \/ client_in = <<>>

\* C33: until the header block is buffered whole nothing is written to the
\* upstream, nor to the client; the first write to the upstream is the whole
\* block, rewritten if there are credentials, and every byte a relay writes
\* comes after it.
C33_HeaderAtomic ==
    /\ [](spc \in {"accepted", "reading", "buffered"} =>
              /\ upstream_out = <<>> /\ client_out = <<>>
              /\ c2u = "idle" /\ u2c = "idle")
    /\ [](spc = "buffered" => HeaderComplete)
    /\ [][upstream_out = <<>> /\ upstream_out' # <<>> =>
              /\ HeaderComplete
              /\ upstream_out' = NewHeaderData(header_data, auth_header)]_vars
    /\ []((c2u # "idle" \/ u2c # "idle" \/ client_out # <<>>) =>
              IsPrefix(NewHeaderData(header_data, auth_header), upstream_out))

\* a header block closed by an empty line went to the upstream with the
\* credentials added, and then both relays wrote
C33_Witness ==
    /\ spc = "relaying"
    /\ auth_header # <<>>
    /\ BlankLineEnd(header_data)
    /\ Len(upstream_out) > Len(NewHeaderData(header_data, auth_header))
    /\ client_out # <<>>

\* C34: from the start of a batch's tasks until the last of them has ended,
\* visited and to_visit do not change, and neither do the results: a step
\* taken while a task of the batch is still running changes at most the
\* tasks, and in them only one running task, which ends with its result and
\* its links.
C34_FrontierFrozenInBatch ==
    [][(cpc = "gather" /\ \E i \in DOMAIN batch : batch[i].st = "running") =>
           /\ visited' = visited
           /\ to_visit' = to_visit
           /\ results' = results
           /\ cpc' = "gather"
           /\ DOMAIN batch' = DOMAIN batch
           /\ \A i \in DOMAIN batch :
                  \/ batch'[i] = batch[i]
                  \/ /\ batch[i].st = "running"
                     /\ batch'[i].st # "running"
                     /\ batch'[i].url = batch[i].url
                     /\ \A j \in DOMAIN batch \ {i} : batch'[j] = batch[j]]_vars

\* the second task of a batch has ended with links not yet known while the
\* first is still running, and the queue is as the batch left it
C34_Witness ==
    /\ cpc = "gather"
    /\ Len(batch) = 2
    /\ batch[1].st = "running"
    /\ batch[2].st = "returned"
    /\ \E k \in DOMAIN batch[2].new_urls :
           /\ batch[2].new_urls[k] \notin visited
           /\ Count(to_visit, batch[2].new_urls[k]) = 0
    /\ Cardinality(visited) + Len(to_visit) < max_pages

\* what the frontier holds
FrontierSize == Cardinality(visited) + Len(to_visit)
Frontier == visited \cup Range(to_visit)

\* the links the tasks of the batch returned
BatchLinks ==
    UNION {Range(batch[i].new_urls) :
               i \in {j \in DOMAIN batch : batch[j].st = "returned"}}

\* C35: with max_pages >= 1 the visited and the queued URLs together are
\* never more than max_pages, and get_progress() never reports a total above
\* max_pages; a URL is put on the queue only by a step that began with the
\* frontier below max_pages and leaves it no longer than max_pages; a link
\* the coordinator passes over, although it is neither visited nor queued, is
\* passed over with the frontier at max_pages, and from a frontier at
\* max_pages no step of the same run adds a URL.
C35_FrontierWithinBudget ==
    /\ [](max_pages >= 1 => FrontierSize <= max_pages)
    /\ [](max_pages >= 1 /\ progress # <<>> =>
              progress.total <= progress.max_pages)
    /\ [][(max_pages >= 1 /\ run' = run /\ ~(Frontier' \subseteq Frontier)) =>
              FrontierSize < max_pages /\ FrontierSize' <= max_pages]_vars
    /\ [][(max_pages >= 1 /\ cpc = "gather" /\ cpc' = "loop"
               /\ ~(BatchLinks \subseteq Frontier')) =>
              FrontierSize' = max_pages]_vars
    /\ [][(max_pages >= 1 /\ run' = run /\ FrontierSize = max_pages) =>
              Frontier' = Frontier /\ FrontierSize' = max_pages]_vars

\* a batch has been gone through, one of its links was put on the queue and
\* a later one was passed over, the frontier being full; get_progress() has
\* reported the full frontier
C35_Witness ==
    /\ cpc = "loop"
    /\ max_pages >= 2
    /\ FrontierSize = max_pages
    /\ to_visit # <<>>
    /\ ~(BatchLinks \subseteq Frontier)
    /\ progress # <<>> /\ progress.total = max_pages
    /\ progress.queued = Len(to_visit)

\* C36: tasks are created for URLs in the order in which the URLs were put
\* on to_visit, the queue being what is left of that order; so the depth at
\* which the URLs were first found does not go down along the tasks created,
\* and no URL first found at a greater depth has its task created in an
\* earlier batch than a URL first found at a smaller one.
C36_BreadthFirst ==
    /\ enqueued = [i \in DOMAIN sent |-> sent[i].url] \o to_visit
    /\ \A i \in DOMAIN sent : found_at[sent[i].url] >= 0
    /\ \A i \in DOMAIN sent : \A j \in DOMAIN sent :
           /\ i <= j => /\ sent[i].b <= sent[j].b
                        /\ found_at[sent[i].url] <= found_at[sent[j].url]
           /\ found_at[sent[i].url] > found_at[sent[j].url] =>
                  sent[i].b >= sent[j].b

\* a third batch holds a URL found at depth 2, after a batch of two found at
\* depth 1 one of which failed, and a URL found is still on the queue
C36_Witness ==
    /\ Len(sent) >= 4
    /\ sent[2].b = 2 /\ sent[3].b = 2 /\ sent[4].b = 3
    /\ found_at[sent[3].url] = 1
    /\ found_at[sent[4].url] = 2
    /\ \E i \in DOMAIN results : ~results[i].success

\* a task queued on the semaphore and not handed a permit
Blocked(t) == tpc[t] = "waiting" /\ ~Woken(t)

\* C37 as stated: a task is blocked on entry only while no permit is free,
\* and every task that waits on entry gets into its scope.
C37_BlocksOnlyWhileAllHeld ==
    /\ [](\A t \in Tasks : Blocked(t) => sem_value = 0)
    /\ \A t \in Tasks : (tpc[t] = "waiting") ~> (tpc[t] = "body")

\* C37, amended: a task is blocked on entry only while no permit is free or
\* a task queued before it was handed a permit and has not resumed, and it
\* queues only from such a state; every task that waits on entry gets into
\* its scope, given that every task in its scope leaves it.
C37_BlocksOnlyBehindHolders ==
    /\ [](\A t \in Tasks : Blocked(t) => (sem_value = 0 \/ Granted > 0))
    /\ [][\A t \in Tasks :
              (tpc[t] = "start" /\ tpc'[t] = "waiting") =>
                  (sem_value = 0 \/ Granted > 0)]_vars
    /\ \A t \in Tasks : (tpc[t] = "waiting") ~> (tpc[t] = "body")

\* a task is blocked on entry while a permit is free and no task is in its
\* scope: the task queued before it was handed a permit and has not resumed
C37_Witness ==
    /\ \E t \in Tasks : Blocked(t)
    /\ sem_value > 0
    /\ Granted > 0
    /\ active_count = 0
    /\ NTasks > max_concurrent

\* C38: the acquire() activations nested below a caller's outermost one do
\* not grow with the number of times the caller has waited: a caller that
\* waits a second time is no deeper than after its first wait.
C38_DepthBounded ==
    \A c \in Calls : depth[c] <= 1

\* the tasks inside the scoped body
InBody == {t \in Tasks : tpc[t] = "body"}

\* C39: active_count is the number of tasks inside the scoped body and never
\* exceeds max_concurrent; the permits not free are those of the tasks in
\* the body and those handed to queued tasks that have not resumed, so
\* whenever no task is between being handed a permit and resuming,
\* active_count = max_concurrent - free permits.
C39_CounterAgreesWithPermits ==
    /\ active_count = Cardinality(InBody)
    /\ active_count <= max_concurrent
    /\ active_count + Granted = max_concurrent - sem_value
    /\ Granted = 0 => active_count = max_concurrent - sem_value

\* two tasks have left the scope and two others are inside it; no permit is
\* free and none is handed to a task that has not resumed
C39_Witness ==
    /\ max_concurrent = 2
    /\ Cardinality({t \in Tasks : TaskEnded(t)}) = 2
    /\ Cardinality(InBody) = 2
    /\ Granted = 0
    /\ sem_value = 0

\* C40: when crawl() has returned, with max_pages >= 1 and max_concurrent >=
\* 1, to_visit is empty and every URL ever put on it has been visited; the
\* loop is not left with URLs on the queue.
C40_QueueEmptyAtReturn ==
    (cpc = "done" /\ max_pages >= 1 /\ crawl_concurrent >= 1) =>
        /\ to_visit = <<>>
        /\ Range(enqueued) = visited
        /\ Len(sent) = Len(enqueued)

\* crawl() has returned with the budget of two or more pages used up, and a
\* link that was found on a page was not enqueued
C40_Witness ==
    /\ cpc = "done"
    /\ max_pages >= 2
    /\ crawl_concurrent >= 1
    /\ Cardinality(visited) = max_pages
    /\ Len(enqueued) = max_pages
    /\ \E u \in Urls : found_at[u] >= 0 /\ u \notin visited

====
